---- MODULE Spec2Model ----
(***************************************************************************)
(* A model of the NewTerm plugin runtime (src/src/plugin_manager.py and    *)
(* src/src/plugin_api.py): the PluginManager's dictionaries, the plugin    *)
(* objects it constructs, and its public operations; and of the keybinding *)
(* registry (src/src/keybinding_manager.py), the configuration validator   *)
(* (src/src/config_validator.py), the settings store (src/src/config.py)   *)
(* and the configuration parser (src/src/config_parser.py). Each component *)
(* has its own specification over the component's variables.               *)
(*                                                                         *)
(* Every operation of the manager is a pure operator from a manager state  *)
(* (a record of the object's fields) and the operation's inputs to a       *)
(* Result record; the actions apply one operator each and store the        *)
(* outcome, together with the state before the call and the plugin         *)
(* callbacks the call made, in `last`.                                     *)
(***************************************************************************)
EXTENDS Integers, Sequences, FiniteSets, TLC

VARIABLES
    enabled_plugins,   \* PluginManager.enabled_plugins : id -> plugin object
    disabled_plugins,  \* PluginManager.disabled_plugins: id -> plugin object
    plugin_configs,    \* PluginManager.plugin_configs  : id -> descriptor
    event_hooks,       \* PluginManager.event_hooks     : event -> list of bound methods
    objects,           \* the live PluginBase objects: object -> [id, enabled, config]
    serial,            \* the identity the next constructed plugin object gets
    last,              \* the last call: operation, inputs, outcome, state before
    bindings,          \* KeyBindingManager.bindings: the KeyBinding objects, in
                       \* the dict's (insertion) order
    categories,        \* KeyBindingManager.categories: category -> list of actions
    conflicts,         \* KeyBindingManager.conflicts: list of (action, existing)
    kb_last,           \* the last KeyBindingManager call
    cv_errors,         \* ConfigValidator.errors
    cv_warnings,       \* ConfigValidator.warnings
    cv_last,           \* the last ConfigValidator call
    cfg_config,        \* Config.config: the settings document
    cfg_last,          \* the last Config call
    cp_line_number,    \* ConfigParser.line_number
    cp_errors,         \* ConfigParser.errors
    cp_warnings,       \* ConfigParser.warnings
    cp_last,           \* the last ConfigParser call
    tabs,              \* TabManager.tabs: the list of TerminalTab objects
    active_tab,        \* TabManager.active_tab: a tab, or None
    tab_serial,        \* the identity the next constructed TerminalTab gets
    win_last           \* the last call on the window's managers

pm_vars == <<enabled_plugins, disabled_plugins, plugin_configs, event_hooks,
             objects, serial, last>>

kb_vars == <<bindings, categories, conflicts, kb_last>>

cv_vars == <<cv_errors, cv_warnings, cv_last>>

cfg_vars == <<cfg_config, cfg_last>>

cp_vars == <<cp_line_number, cp_errors, cp_warnings, cp_last>>

win_vars == <<tabs, active_tab, tab_serial, win_last>>

vars == <<pm_vars, kb_vars, cv_vars, cfg_vars, cp_vars, win_vars>>

\* What a call on one component leaves alone: the other components.
other_than_pm == <<kb_vars, cv_vars, cfg_vars, cp_vars, win_vars>>

other_than_kb == <<pm_vars, cv_vars, cfg_vars, cp_vars, win_vars>>

other_than_cv == <<pm_vars, kb_vars, cfg_vars, cp_vars, win_vars>>


-----------------------------------------------------------------------------
(* Bounds *)

\* Plugin objects constructed in one behaviour.
MaxInst == 3

\* Entries the conflict list of the keybinding registry may grow to.
MaxConflicts == 4

-----------------------------------------------------------------------------
(* Python values *)

\* Python's None; plugin objects are the numbers 1, 2, ...
None == 0

\* The empty dict {}.
EmptyDict == [x \in {} |-> None]

\* d[k] = v
Put(d, k, v) == [x \in (DOMAIN d) \cup {k} |-> IF x = k THEN v ELSE d[x]]

\* del d[k]
Del(d, k) == [x \in (DOMAIN d) \ {k} |-> d[x]]

\* d.get(k): the value, or None
Get(d, k) == IF k \in DOMAIN d THEN d[k] ELSE None

-----------------------------------------------------------------------------
(* The installed plugins *)

\* The event names of PluginEvent the model dispatches.
EventTypes == {"tab_created", "terminal_created", "config_changed"}

\* What discover_plugins() returns: one descriptor per plugin directory, the
\* plugin.json content plus 'path' and 'id'. p1 and p2 declare the same name;
\* the plugin.json of p4 has no 'config' object.
discover_plugins ==
    << [id |-> "p1", path |-> "plugins/alpha", name |-> "core",
        dependencies |-> << >>, config |-> [show_welcome |-> TRUE]],
       [id |-> "p2", path |-> "plugins/beta", name |-> "core",
        dependencies |-> << >>, config |-> [show_welcome |-> TRUE]],
       [id |-> "p3", path |-> "plugins/gamma", name |-> "ext",
        dependencies |-> <<"core">>, config |-> [show_welcome |-> TRUE]],
       [id |-> "p4", path |-> "plugins/delta", name |-> "full",
        dependencies |-> <<"core", "ext">>] >>

Descriptors == {discover_plugins[i] : i \in DOMAIN discover_plugins}

PluginIds == {d.id : d \in Descriptors}

Descriptor(id) == CHOOSE d \in Descriptors : d.id = id

\* The methods of each plugin class that carry @hook(event) decorations, in
\* the order dir(plugin) lists them (sorted by attribute name), each with its
\* _plugin_hooks list.
PluginHooks(id) ==
    CASE id = "p1" -> << [attr |-> "on_tab_created",
                          _plugin_hooks |-> <<"tab_created">>],
                         [attr |-> "on_terminal_created",
                          _plugin_hooks |-> <<"terminal_created">>] >>
      [] id = "p2" -> << [attr |-> "on_tab_created",
                          _plugin_hooks |-> <<"tab_created">>] >>
      [] id = "p3" -> << [attr |-> "on_tab_created",
                          _plugin_hooks |-> <<"tab_created">>] >>
      [] OTHER     -> << >>

-----------------------------------------------------------------------------
(* The manager state handed to the operators, and their results *)

Manager ==
    [enabled_plugins  |-> enabled_plugins,
     disabled_plugins |-> disabled_plugins,
     plugin_configs   |-> plugin_configs,
     event_hooks      |-> event_hooks,
     objects          |-> objects,
     serial           |-> serial,
     calls            |-> << >>]

\* The call returns ret.
Return(pm, ret) == [pm |-> pm, ret |-> ret, exc |-> "none"]

\* The call raises exception e to its caller.
Raise(pm, e) == [pm |-> pm, ret |-> None, exc |-> e]

\* A callback of plugin object `plugin` is invoked.
Call(pm, plugin, name) ==
    [pm EXCEPT !.calls = Append(@, [self |-> plugin, name |-> name])]

-----------------------------------------------------------------------------
(* plugin_api.PluginBase *)

\* plugin_class(self, plugin_config): a new object, config = plugin_config,
\* enabled = True.
PluginBase_init(pm, plugin_config) ==
    [pm EXCEPT !.objects = Put(@, pm.serial,
                               [id |-> plugin_config.id, enabled |-> TRUE,
                                config |-> plugin_config]),
               !.serial = @ + 1]

get_name(pm, plugin) == Descriptor(pm.objects[plugin].id).name

get_dependencies(pm, plugin) ==
    LET config == pm.objects[plugin].config
    IN  IF "dependencies" \in DOMAIN config THEN config.dependencies ELSE << >>

is_enabled(pm, plugin) == pm.objects[plugin].enabled

set_enabled(pm, plugin, enabled) ==
    [pm EXCEPT !.objects[plugin].enabled = enabled]

-----------------------------------------------------------------------------
(* plugin_manager.PluginManager *)

\* get_plugin(plugin_id): enabled_plugins.get(id) or disabled_plugins.get(id)
get_plugin(pm, plugin_id) ==
    IF Get(pm.enabled_plugins, plugin_id) # None
    THEN Get(pm.enabled_plugins, plugin_id)
    ELSE Get(pm.disabled_plugins, plugin_id)

\* The "is already loaded" test of load_plugin.
already_loaded_enabled_only(pm, plugin_id) ==
    plugin_id \in DOMAIN pm.enabled_plugins

already_loaded(pm, plugin_id) ==
    \/ plugin_id \in DOMAIN pm.enabled_plugins
    \/ plugin_id \in DOMAIN pm.disabled_plugins

\* The inner loop of _check_dependencies: does an enabled plugin report dep?
dep_found_any_tracked(pm, dep) ==
    \E id \in (DOMAIN pm.enabled_plugins) \cup (DOMAIN pm.disabled_plugins) :
        get_name(pm, get_plugin(pm, id)) = dep

dep_found(pm, dep) ==
    \E id \in DOMAIN pm.enabled_plugins :
        get_name(pm, pm.enabled_plugins[id]) = dep

\* The outer loop of _check_dependencies, from dependency i on.
RECURSIVE check_from(_, _, _)
check_from(pm, dependencies, i) ==
    IF i > Len(dependencies) THEN TRUE
    ELSE IF ~dep_found(pm, dependencies[i]) THEN FALSE
    ELSE check_from(pm, dependencies, i + 1)

check_dependencies_always(pm, plugin) == TRUE

_check_dependencies(pm, plugin) ==
    check_from(pm, get_dependencies(pm, plugin), 1)

\* event_hooks[event_type].append(attr), creating the list when missing.
append_hook(pm, event_type, hook) ==
    [pm EXCEPT !.event_hooks =
        Put(@, event_type, (IF event_type \in DOMAIN @ THEN @[event_type]
                            ELSE << >>) \o <<hook>>)]

\* for event_type in attr._plugin_hooks, from entry j on.
RECURSIVE register_attr(_, _, _, _)
register_attr(pm, plugin, method, j) ==
    IF j > Len(method._plugin_hooks) THEN pm
    ELSE register_attr(
            append_hook(pm, method._plugin_hooks[j],
                        [self |-> plugin, name |-> method.attr]),
            plugin, method, j + 1)

\* for attr_name in dir(plugin), from attribute i on.
RECURSIVE register_from(_, _, _)
register_from(pm, plugin, i) ==
    LET methods == PluginHooks(pm.objects[plugin].id)
    IN  IF i > Len(methods) THEN pm
        ELSE register_from(register_attr(pm, plugin, methods[i], 1),
                           plugin, i + 1)

_register_event_hooks(pm, plugin) == register_from(pm, plugin, 1)

\* load_plugin's unmet-dependency branch: store disabled, return None.
store_unmet_enabled(pm, plugin_id, plugin) ==
    Return([pm EXCEPT !.enabled_plugins = Put(@, plugin_id, plugin)], None)

store_unmet(pm, plugin_id, plugin) ==
    Return([pm EXCEPT !.disabled_plugins = Put(@, plugin_id, plugin)], None)

\* What json.load reads from the file plugin_<plugin_id>.json of the config
\* directory, when the file exists.
PersistedConfig(plugin_id) == [show_welcome |-> FALSE]

\* _load_plugin_config(plugin_id, plugin_config). persisted: the file
\* plugin_<plugin_id>.json exists (and parses).
_load_plugin_config(plugin_id, plugin_config, persisted) ==
    IF persisted THEN PersistedConfig(plugin_id)
    ELSE IF "config" \in DOMAIN plugin_config THEN plugin_config.config
    ELSE EmptyDict

\* load_plugin(plugin_config). resolves: _load_legacy_plugin/_load_modern_plugin
\* found a plugin class; persisted: the plugin has a sub-config file;
\* load_raises: the plugin's on_load raises. The value _load_plugin_config
\* returns is bound to the local name plugin_config, which nothing reads
\* afterwards: the plugin object was constructed before.
load_plugin(pm, plugin_config, resolves, persisted, load_raises) ==
    IF ~({"path", "id"} \subseteq DOMAIN plugin_config)
    THEN Raise(pm, "KeyError")
    ELSE
    LET plugin_id == plugin_config.id IN
    IF already_loaded(pm, plugin_id)
    THEN Return(pm, get_plugin(pm, plugin_id))
    ELSE IF ~resolves
    THEN Return(pm, None)
    ELSE
    LET plugin == pm.serial
        pm1 == PluginBase_init(pm, plugin_config)
    IN  IF ~_check_dependencies(pm1, plugin)
        THEN store_unmet(pm1, plugin_id, plugin)
        ELSE
        LET plugin_config1 ==
                _load_plugin_config(plugin_id, plugin_config, persisted)
            pm2 == Call(pm1, plugin, "on_load")
            pm3 == _register_event_hooks(pm2, plugin)
        IN  IF is_enabled(pm3, plugin)
            THEN Return([pm3 EXCEPT !.enabled_plugins =
                                        Put(@, plugin_id, plugin)], plugin)
            ELSE Return([pm3 EXCEPT !.disabled_plugins =
                                        Put(@, plugin_id, plugin)], plugin)

\* The list comprehension of unload_plugin over every event's hooks.
strip_hooks(pm, plugin) ==
    [e \in DOMAIN pm.event_hooks |->
        SelectSeq(pm.event_hooks[e], LAMBDA hook : hook.self # plugin)]

\* unload_plugin(plugin_id). unload_raises: the plugin's on_unload raises.
unload_plugin(pm, plugin_id, unload_raises) ==
    LET plugin == get_plugin(pm, plugin_id) IN
    IF plugin = None THEN Return(pm, FALSE)
    ELSE
    LET pm1 == Call(pm, plugin, "on_unload") IN
    IF unload_raises THEN Return(pm1, FALSE)
    ELSE
    LET pm2 == [pm1 EXCEPT
                  !.enabled_plugins = Del(@, plugin_id),
                  !.disabled_plugins = Del(@, plugin_id),
                  !.objects = Del(@, plugin)]
    IN  Return([pm2 EXCEPT !.event_hooks = strip_hooks(pm2, plugin)], TRUE)

\* The call one handler of a dispatch makes back into its plugin_manager:
\* none, or load_plugin / unload_plugin of plugin id by the handler at
\* position `at` of the list.
NoReentry == [at |-> 0, op |-> "none", id |-> ""]

\* hook(**kwargs) for the hook at position i, after it was entered.
handler(pm, reentry, i) ==
    IF reentry.at # i THEN pm
    ELSE IF reentry.op = "load"
    THEN load_plugin(pm, Descriptor(reentry.id), TRUE, FALSE, FALSE).pm
    ELSE unload_plugin(pm, reentry.id, FALSE).pm

\* The list object the for loop iterates, after the handler at position i
\* left the manager in state pm: _register_event_hooks appends to that very
\* list, unload_plugin binds new lists and leaves the iterated one as it was.
iterated(pm, event_type, hooks, reentry, i) ==
    IF reentry.at = i /\ reentry.op = "load"
    THEN pm.event_hooks[event_type]
    ELSE hooks

\* The loop of emit_event over hooks, from hook i on; raises is the set of
\* positions whose hook raises.
RECURSIVE dispatch_stop_on_raise(_, _, _, _, _, _)
dispatch_stop_on_raise(pm, event_type, hooks, raises, reentry, i) ==
    IF i > Len(hooks) THEN pm
    ELSE IF i \in raises THEN Call(pm, hooks[i].self, hooks[i].name)
    ELSE LET ran == handler(Call(pm, hooks[i].self, hooks[i].name),
                            reentry, i)
         IN  dispatch_stop_on_raise(
                 ran, event_type,
                 iterated(ran, event_type, hooks, reentry, i),
                 raises, reentry, i + 1)

RECURSIVE dispatch(_, _, _, _, _, _)
dispatch(pm, event_type, hooks, raises, reentry, i) ==
    IF i > Len(hooks) THEN pm
    ELSE LET ran == handler(Call(pm, hooks[i].self, hooks[i].name),
                            reentry, i)
         IN  dispatch(ran, event_type,
                      iterated(ran, event_type, hooks, reentry, i),
                      raises, reentry, i + 1)

\* emit_event(event_type, **kwargs)
emit_event(pm, event_type, raises, reentry) ==
    IF event_type \notin DOMAIN pm.event_hooks THEN Return(pm, None)
    ELSE Return(dispatch(pm, event_type, pm.event_hooks[event_type], raises,
                         reentry, 1), None)

\* enable_plugin(plugin_id). load_raises: the plugin's on_load raises.
enable_plugin(pm, plugin_id, load_raises) ==
    LET plugin == Get(pm.disabled_plugins, plugin_id) IN
    IF plugin = None THEN Return(pm, FALSE)
    ELSE IF ~_check_dependencies(pm, plugin) THEN Return(pm, FALSE)
    ELSE
    LET pm1 == set_enabled(pm, plugin, TRUE)
        pm2 == [pm1 EXCEPT !.enabled_plugins = Put(@, plugin_id, plugin),
                           !.disabled_plugins = Del(@, plugin_id)]
        pm3 == Call(pm2, plugin, "on_load")
    IN  IF load_raises THEN Return(pm3, FALSE) ELSE Return(pm3, TRUE)

\* disable_plugin(plugin_id)
disable_plugin_keeps_enabled(pm, plugin_id) ==
    LET plugin == Get(pm.enabled_plugins, plugin_id) IN
    IF plugin = None THEN Return(pm, FALSE)
    ELSE
    LET pm1 == set_enabled(pm, plugin, FALSE)
    IN  Return([pm1 EXCEPT !.disabled_plugins = Put(@, plugin_id, plugin)], TRUE)

\* A disable_plugin that tears the plugin's hooks down as unload_plugin does.
disable_plugin_strips_hooks(pm, plugin_id) ==
    LET plugin == Get(pm.enabled_plugins, plugin_id) IN
    IF plugin = None THEN Return(pm, FALSE)
    ELSE
    LET pm1 == set_enabled(pm, plugin, FALSE)
    IN  Return([pm1 EXCEPT !.disabled_plugins = Put(@, plugin_id, plugin),
                           !.enabled_plugins = Del(@, plugin_id),
                           !.event_hooks = strip_hooks(pm1, plugin)], TRUE)

disable_plugin(pm, plugin_id) ==
    LET plugin == Get(pm.enabled_plugins, plugin_id) IN
    IF plugin = None THEN Return(pm, FALSE)
    ELSE
    LET pm1 == set_enabled(pm, plugin, FALSE)
    IN  Return([pm1 EXCEPT !.disabled_plugins = Put(@, plugin_id, plugin),
                           !.enabled_plugins = Del(@, plugin_id)], TRUE)

\* reload_plugin(plugin_id)
reload_plugin(pm, plugin_id, unload_raises, resolves, persisted, load_raises) ==
    LET plugin == get_plugin(pm, plugin_id) IN
    IF plugin = None THEN Return(pm, FALSE)
    ELSE
    LET config == IF plugin_id \in DOMAIN pm.plugin_configs
                  THEN pm.plugin_configs[plugin_id] ELSE EmptyDict
        u == unload_plugin(pm, plugin_id, unload_raises)
        l == load_plugin(u.pm, config, resolves, persisted, load_raises)
    IN  IF l.exc # "none" THEN l ELSE Return(l.pm, l.ret # None)

-----------------------------------------------------------------------------
(* keybinding_manager.KeyBinding *)

\* Gtk.accelerator_parse(key_combo) on the key combinations of the defaults
\* table and of the calls below: <<keyval, modifier mask>> with SHIFT_MASK = 1
\* and CONTROL_MASK = 4; modifier names have aliases and the key is lowercased,
\* so two strings may parse to one accelerator. A string that is no
\* accelerator parses to <<0, 0>>.
accelerator_parse(key_combo) ==
    CASE key_combo = "<Ctrl><Shift>C"    -> <<99, 5>>
      [] key_combo = "<Control><Shift>c" -> <<99, 5>>
      [] key_combo = "<Ctrl><Shift>V"    -> <<118, 5>>
      [] key_combo = "<Ctrl><Shift>T"    -> <<116, 5>>
      [] key_combo = "<Ctrl><Shift>W"    -> <<119, 5>>
      [] key_combo = "<Ctrl>Page_Down"   -> <<65366, 4>>
      [] key_combo = "<Ctrl>Page_Up"     -> <<65365, 4>>
      [] key_combo = "<Ctrl><Shift>H"    -> <<104, 5>>
      [] key_combo = "<Ctrl><Shift>Q"    -> <<113, 5>>
      [] key_combo = "<Ctrl>plus"        -> <<43, 4>>
      [] key_combo = "<Ctrl>minus"       -> <<45, 4>>
      [] key_combo = "<Ctrl>0"           -> <<48, 4>>
      [] key_combo = "<Ctrl><Shift>F"    -> <<102, 5>>
      [] key_combo = "<Ctrl><Shift>P"    -> <<112, 5>>
      [] key_combo = "<Ctrl>comma"       -> <<44, 4>>
      [] key_combo = "F11"               -> <<65480, 0>>
      [] key_combo = "<Ctrl><Shift>N"    -> <<110, 5>>
      [] key_combo = "<Ctrl><Shift>Up"   -> <<65362, 5>>
      [] key_combo = "<Ctrl><Shift>Down" -> <<65364, 5>>
      [] key_combo = "<Ctrl>Home"        -> <<65360, 4>>
      [] key_combo = "<Ctrl>End"         -> <<65367, 4>>
      [] key_combo = "Page_Up"           -> <<65365, 0>>
      [] key_combo = "Page_Down"         -> <<65366, 0>>
      [] key_combo = "<Ctrl><Shift>A"    -> <<97, 5>>
      [] key_combo = "<Ctrl><Shift>L"    -> <<108, 5>>
      [] key_combo = "Escape"            -> <<65307, 0>>
      [] OTHER                           -> <<0, 0>>

_parse_accelerator(key_combo) == accelerator_parse(key_combo)

\* KeyBinding(key_combo, action, callback, description, category); callback
\* and description are carried along and never read by the registry.
KeyBinding(key_combo, action, category) ==
    [key_combo |-> key_combo, action |-> action, category |-> category,
     accelerator |-> _parse_accelerator(key_combo)]

is_valid_always(binding) == TRUE

is_valid(binding) == binding.accelerator[1] # 0

-----------------------------------------------------------------------------
(* keybinding_manager.KeyBindingManager *)

\* _get_default_bindings(): the table, as the nested loops over
\* default_bindings.items() and actions.items() visit it; the descriptions
\* are left out.
default_bindings ==
    << [category |-> "terminal", action |-> "copy", key |-> "<Ctrl><Shift>C"],
       [category |-> "terminal", action |-> "paste", key |-> "<Ctrl><Shift>V"],
       [category |-> "terminal", action |-> "new_tab", key |-> "<Ctrl><Shift>T"],
       [category |-> "terminal", action |-> "close_tab", key |-> "<Ctrl><Shift>W"],
       [category |-> "terminal", action |-> "next_tab", key |-> "<Ctrl>Page_Down"],
       [category |-> "terminal", action |-> "prev_tab", key |-> "<Ctrl>Page_Up"],
       [category |-> "terminal", action |-> "split_horizontal", key |-> "<Ctrl><Shift>H"],
       [category |-> "terminal", action |-> "split_vertical", key |-> "<Ctrl><Shift>V"],
       [category |-> "terminal", action |-> "close_pane", key |-> "<Ctrl><Shift>Q"],
       [category |-> "terminal", action |-> "zoom_in", key |-> "<Ctrl>plus"],
       [category |-> "terminal", action |-> "zoom_out", key |-> "<Ctrl>minus"],
       [category |-> "terminal", action |-> "reset_zoom", key |-> "<Ctrl>0"],
       [category |-> "terminal", action |-> "find", key |-> "<Ctrl><Shift>F"],
       [category |-> "terminal", action |-> "command_palette", key |-> "<Ctrl><Shift>P"],
       [category |-> "terminal", action |-> "preferences", key |-> "<Ctrl>comma"],
       [category |-> "terminal", action |-> "toggle_fullscreen", key |-> "F11"],
       [category |-> "terminal", action |-> "new_window", key |-> "<Ctrl><Shift>N"],
       [category |-> "terminal", action |-> "quit", key |-> "<Ctrl><Shift>Q"],
       [category |-> "navigation", action |-> "scroll_up", key |-> "<Ctrl><Shift>Up"],
       [category |-> "navigation", action |-> "scroll_down", key |-> "<Ctrl><Shift>Down"],
       [category |-> "navigation", action |-> "scroll_to_top", key |-> "<Ctrl>Home"],
       [category |-> "navigation", action |-> "scroll_to_bottom", key |-> "<Ctrl>End"],
       [category |-> "navigation", action |-> "page_up", key |-> "Page_Up"],
       [category |-> "navigation", action |-> "page_down", key |-> "Page_Down"],
       [category |-> "selection", action |-> "select_all", key |-> "<Ctrl><Shift>A"],
       [category |-> "selection", action |-> "select_word", key |-> "<Ctrl><Shift>W"],
       [category |-> "selection", action |-> "select_line", key |-> "<Ctrl><Shift>L"],
       [category |-> "selection", action |-> "clear_selection", key |-> "Escape"] >>

\* The registry's fields handed to the operators.
KbManager ==
    [bindings |-> bindings, categories |-> categories, conflicts |-> conflicts]

\* The registry after bindings.clear(), categories.clear(), conflicts.clear().
cleared == [bindings |-> << >>, categories |-> EmptyDict, conflicts |-> << >>]

\* action in self.bindings
is_bound(kb, action) ==
    \E i \in DOMAIN kb.bindings : kb.bindings[i].action = action

\* self.bindings[action], for a bound action
get_binding(kb, action) ==
    kb.bindings[CHOOSE i \in DOMAIN kb.bindings : kb.bindings[i].action = action]

\* self.bindings[action] = binding: a bound action keeps its place in the
\* dict's order, a new one goes last.
set_binding(kb, binding) ==
    IF is_bound(kb, binding.action)
    THEN [i \in DOMAIN kb.bindings |->
            IF kb.bindings[i].action = binding.action THEN binding
            ELSE kb.bindings[i]]
    ELSE Append(kb.bindings, binding)

\* The conflict loop of register_binding: the positions of the bindings of
\* other actions with binding's accelerator.
no_conflicts(kb, binding) == {}

conflicting(kb, binding) ==
    {i \in DOMAIN kb.bindings :
        /\ kb.bindings[i].accelerator = binding.accelerator
        /\ kb.bindings[i].action # binding.action}

\* categories after "if category not in categories: categories[category] = []"
\* and "if action not in categories[category]: append(action)".
add_to_category(kb, category, action) ==
    LET members == IF category \in DOMAIN kb.categories
                   THEN kb.categories[category] ELSE << >>
    IN  Put(kb.categories, category,
            IF \E k \in DOMAIN members : members[k] = action THEN members
            ELSE Append(members, action))

\* register_binding(action, key_combo, callback, description, category)
register_binding(kb, action, key_combo, category) ==
    LET binding == KeyBinding(key_combo, action, category) IN
    IF ~is_valid(binding) THEN [kb |-> kb, ret |-> FALSE]
    ELSE IF conflicting(kb, binding) # {}
    THEN LET i == CHOOSE i \in conflicting(kb, binding) :
                      \A j \in conflicting(kb, binding) : i <= j
         IN  [kb |-> [kb EXCEPT !.conflicts =
                          Append(@, <<action, kb.bindings[i].action>>)],
              ret |-> FALSE]
    ELSE [kb |-> [kb EXCEPT !.bindings = set_binding(kb, binding),
                            !.categories = add_to_category(kb, category, action)],
          ret |-> TRUE]

\* list.remove(action): the list without its first occurrence of action.
list_remove(members, action) ==
    LET k == CHOOSE k \in DOMAIN members :
                 /\ members[k] = action
                 /\ \A j \in 1..(k - 1) : members[j] # action
    IN  SubSeq(members, 1, k - 1) \o SubSeq(members, k + 1, Len(members))

\* unregister_binding(action)
unregister_binding(kb, action) ==
    IF ~is_bound(kb, action) THEN [kb |-> kb, ret |-> FALSE]
    ELSE
    LET binding == get_binding(kb, action)
        kb1 == [kb EXCEPT !.bindings =
                   SelectSeq(@, LAMBDA b : b.action # action)]
    IN  IF /\ binding.category \in DOMAIN kb1.categories
           /\ \E k \in DOMAIN kb1.categories[binding.category] :
                  kb1.categories[binding.category][k] = action
        THEN [kb |-> [kb1 EXCEPT !.categories[binding.category] =
                                     list_remove(@, action)],
              ret |-> TRUE]
        ELSE [kb |-> kb1, ret |-> TRUE]

\* The loops of load_from_config and reset_to_defaults over the defaults
\* table, from entry i on: each entry goes through register_binding, whose
\* result is ignored.
RECURSIVE register_defaults(_, _)
register_defaults(kb, i) ==
    IF i > Len(default_bindings) THEN kb
    ELSE register_defaults(
            register_binding(kb, default_bindings[i].action,
                             default_bindings[i].key,
                             default_bindings[i].category).kb,
            i + 1)

\* The registry after the three clear() calls and the loops over the
\* defaults table, the common part of reset_to_defaults and load_from_config.
defaults_registered == register_defaults(cleared, 1)

\* reset_to_defaults()
reset_to_defaults(kb) == defaults_registered

\* One user override of load_from_config: a bound action gets the override's
\* key_combo and its parsed accelerator, in place; other actions are skipped.
override_checked(kb, action, key_combo) ==
    IF is_bound(kb, action)
    THEN register_binding(kb, action, key_combo,
                          get_binding(kb, action).category).kb
    ELSE kb

override(kb, action, key_combo) ==
    IF is_bound(kb, action)
    THEN [kb EXCEPT !.bindings =
            [i \in DOMAIN kb.bindings |->
                IF kb.bindings[i].action = action
                THEN [kb.bindings[i] EXCEPT
                        !.key_combo = key_combo,
                        !.accelerator = _parse_accelerator(key_combo)]
                ELSE kb.bindings[i]]]
    ELSE kb

\* for action, key_combo in user_bindings.items(), over the entries todo.
RECURSIVE override_all(_, _, _)
override_all(kb, user_bindings, todo) ==
    IF todo = {} THEN kb
    ELSE LET action == CHOOSE a \in todo : TRUE
         IN  override_all(override(kb, action, user_bindings[action]),
                          user_bindings, todo \ {action})

\* load_from_config(config)
load_from_config(kb, config) ==
    LET user_bindings == IF "keybindings" \in DOMAIN config
                         THEN config.keybindings ELSE EmptyDict
    IN  override_all(defaults_registered, user_bindings,
                     DOMAIN user_bindings)

\* export_bindings(): action -> key_combo
export_bindings(kb) ==
    [action \in {kb.bindings[i].action : i \in DOMAIN kb.bindings} |->
        get_binding(kb, action).key_combo]

-----------------------------------------------------------------------------
(* Configuration documents (config_validator.py) *)

\* A value of a document with its Python type: a string, an int, a bool, None,
\* a list of values or a nested dict (a function from its keys). A value is a
\* record whose one field is named after the type.
Str(s) == [str |-> s]

Num(n) == [int |-> n]

Bool(b) == [bool |-> b]

Null == [null |-> 0]

List(l) == [list |-> l]

Dict(f) == [dict |-> f]

\* A float is the pair <<m, e>> of m * 10^e.
Float(p) == [float |-> p]

\* type(x), and the Python value itself.
TypeOf(x) == CHOOSE t \in DOMAIN x : TRUE

ValueOf(x) == x[TypeOf(x)]

\* d.get(key, default) on a dict value
dict_get(d, key, default) ==
    IF key \in DOMAIN ValueOf(d) THEN ValueOf(d)[key] ELSE default

\* isinstance(x, int): bool is a subclass of int
isinstance_int(x) == TypeOf(x) \in {"int", "bool"}

\* The number a value of type int or bool compares as.
number_of(x) ==
    IF TypeOf(x) = "bool" THEN (IF ValueOf(x) THEN 1 ELSE 0) ELSE ValueOf(x)

\* not s.strip(): the strings of the model that are empty or whitespace.
is_blank(s) == s \in {"", " ", "   "}

\* The strings of the model of the form '#' followed by 3 or 6 hexadecimal
\* digits.
HexColors ==
    {"#000000", "#800000", "#008000", "#808000", "#000080", "#800080",
     "#008080", "#C0C0C0", "#808080", "#FF0000", "#00FF00", "#FFFF00",
     "#0000FF", "#FF00FF", "#00FFFF", "#FFFFFF", "#FFF", "#1e1e2e"}

\* get_default_config(): the tree the dict literal builds, new at every call.
get_default_config ==
    Dict(
        "theme" :> Dict(
            "background_color" :> Str("#000000") @@
            "foreground_color" :> Str("#FFFFFF") @@
            "cursor_color" :> Str("#FFFFFF") @@
            "palette" :> List(<< Str("#000000"), Str("#800000"), Str("#008000"),
                    Str("#808000"), Str("#000080"), Str("#800080"),
                    Str("#008080"), Str("#C0C0C0"), Str("#808080"),
                    Str("#FF0000"), Str("#00FF00"), Str("#FFFF00"),
                    Str("#0000FF"), Str("#FF00FF"), Str("#00FFFF"),
                    Str("#FFFFFF") >>)) @@
        "font" :> Dict(
            "family" :> Str("Monospace") @@
            "size" :> Num(12)) @@
        "keybindings" :> Dict(
            "copy" :> Str("<Ctrl><Shift>C") @@
            "paste" :> Str("<Ctrl><Shift>V") @@
            "new_tab" :> Str("<Ctrl><Shift>T") @@
            "close_tab" :> Str("<Ctrl><Shift>W") @@
            "next_tab" :> Str("<Ctrl>Page_Down") @@
            "prev_tab" :> Str("<Ctrl>Page_Up") @@
            "split_horizontal" :> Str("<Ctrl><Alt>H") @@
            "split_vertical" :> Str("<Ctrl><Alt>V") @@
            "close_pane" :> Str("<Ctrl><Alt>Q") @@
            "zoom_in" :> Str("<Ctrl>plus") @@
            "zoom_out" :> Str("<Ctrl>minus") @@
            "reset_zoom" :> Str("<Ctrl>0") @@
            "find" :> Str("<Ctrl><Shift>F") @@
            "command_palette" :> Str("<Ctrl><Shift>P") @@
            "preferences" :> Str("<Ctrl>comma") @@
            "toggle_fullscreen" :> Str("F11") @@
            "new_window" :> Str("<Ctrl><Shift>N") @@
            "quit" :> Str("<Ctrl><Alt>Q") @@
            "scroll_up" :> Str("<Ctrl><Shift>Up") @@
            "scroll_down" :> Str("<Ctrl><Shift>Down") @@
            "scroll_to_top" :> Str("<Ctrl>Home") @@
            "scroll_to_bottom" :> Str("<Ctrl>End") @@
            "page_up" :> Str("Page_Up") @@
            "page_down" :> Str("Page_Down") @@
            "select_all" :> Str("<Ctrl><Shift>A") @@
            "select_word" :> Str("<Ctrl><Alt>W") @@
            "select_line" :> Str("<Ctrl><Shift>L") @@
            "clear_selection" :> Str("Escape") @@
            "split_pane_h" :> Str("<Ctrl><Alt>H") @@
            "split_pane_v" :> Str("<Ctrl><Alt>V")) @@
        "scrollback_lines" :> Num(1000) @@
        "gpu_acceleration" :> Bool(TRUE) @@
        "restore_session" :> Bool(TRUE) @@
        "show_menu_bar" :> Bool(TRUE) @@
        "show_status_bar" :> Bool(FALSE) @@
        "auto_save_session" :> Bool(TRUE) @@
        "audible_bell" :> Bool(FALSE) @@
        "urgent_bell" :> Bool(TRUE) @@
        "mouse_autohide" :> Bool(FALSE) @@
        "debug_mode" :> Bool(FALSE) @@
        "log_commands" :> Bool(FALSE) @@
        "plugins" :> Dict(
            "enabled" :> List(<< >>) @@
            "disabled" :> List(<< >>) @@
            "auto_load" :> Bool(TRUE)) @@
        "session" :> Dict(
            "max_tabs" :> Num(10) @@
            "save_on_exit" :> Bool(TRUE) @@
            "restore_on_start" :> Bool(TRUE)) @@
        "performance" :> Dict(
            "max_scrollback" :> Num(10000) @@
            "terminal_bell" :> Bool(TRUE) @@
            "cursor_blink" :> Bool(TRUE) @@
            "cursor_shape" :> Str("block")))

-----------------------------------------------------------------------------
(* config_validator.ConfigValidator *)

\* _merge_config without the test `value is not None`: a null overrides.
RECURSIVE _merge_config_null_overrides(_, _)
_merge_config_null_overrides(defaults, user_config) ==
    Dict([key \in (DOMAIN ValueOf(defaults))
                     \cup (DOMAIN ValueOf(user_config)) |->
        IF key \notin DOMAIN ValueOf(user_config) THEN ValueOf(defaults)[key]
        ELSE
        LET value == ValueOf(user_config)[key] IN
        IF key \in DOMAIN ValueOf(defaults)
              /\ TypeOf(ValueOf(defaults)[key]) = "dict"
              /\ TypeOf(value) = "dict"
              /\ DOMAIN ValueOf(ValueOf(defaults)[key]) # {}
        THEN _merge_config_null_overrides(ValueOf(defaults)[key], value)
        ELSE value])

\* _merge_config that extends a list of the defaults by the user's list
\* instead of replacing it.
RECURSIVE _merge_config_extending_lists(_, _)
_merge_config_extending_lists(defaults, user_config) ==
    Dict([key \in (DOMAIN ValueOf(defaults))
                     \cup (DOMAIN ValueOf(user_config)) |->
        IF key \notin DOMAIN ValueOf(user_config) THEN ValueOf(defaults)[key]
        ELSE
        LET value == ValueOf(user_config)[key] IN
        IF key \in DOMAIN ValueOf(defaults)
        THEN IF TypeOf(ValueOf(defaults)[key]) = "dict"
                   /\ TypeOf(value) = "dict"
             THEN IF DOMAIN ValueOf(ValueOf(defaults)[key]) = {} THEN value
                  ELSE _merge_config_extending_lists(ValueOf(defaults)[key],
                                                     value)
             ELSE IF TypeOf(ValueOf(defaults)[key]) = "list"
                        /\ TypeOf(value) = "list"
             THEN List(ValueOf(ValueOf(defaults)[key]) \o ValueOf(value))
             ELSE IF TypeOf(value) # "null" THEN value
                  ELSE ValueOf(defaults)[key]
        ELSE value])

\* _merge_config(defaults, user_config): the dict `defaults` after the loop
\* over user_config.items().
RECURSIVE _merge_config(_, _)
_merge_config(defaults, user_config) ==
    Dict([key \in (DOMAIN ValueOf(defaults))
                     \cup (DOMAIN ValueOf(user_config)) |->
        IF key \notin DOMAIN ValueOf(user_config) THEN ValueOf(defaults)[key]
        ELSE
        LET value == ValueOf(user_config)[key] IN
        IF key \in DOMAIN ValueOf(defaults)
        THEN IF TypeOf(ValueOf(defaults)[key]) = "dict"
                   /\ TypeOf(value) = "dict"
             THEN IF DOMAIN ValueOf(ValueOf(defaults)[key]) = {} THEN value
                  ELSE _merge_config(ValueOf(defaults)[key], value)
             ELSE IF TypeOf(value) # "null" THEN value
                  ELSE ValueOf(defaults)[key]
        ELSE value])

\* _is_valid_color(color)
_is_valid_color(color) == TypeOf(color) = "str" /\ ValueOf(color) \in HexColors

\* One warning.
Warn(cond, message) == IF cond THEN <<message>> ELSE << >>

\* The warnings of a loop that appends `message` once for every element of
\* the set bad.
RECURSIVE WarnEach(_, _)
WarnEach(bad, message) ==
    IF bad = {} THEN << >>
    ELSE LET x == CHOOSE x \in bad : TRUE
         IN  <<message>> \o WarnEach(bad \ {x}, message)

\* The warning for one color key of _validate_theme.
color_warning(theme, color_key) ==
    Warn(color_key \in DOMAIN ValueOf(theme) /\
             ~_is_valid_color(ValueOf(theme)[color_key]),
         "Invalid color format")

\* _validate_theme(theme): the warnings it appends.
_validate_theme(theme) ==
    IF TypeOf(theme) # "dict" THEN << >>
    ELSE color_warning(theme, "background_color")
         \o color_warning(theme, "foreground_color")
         \o color_warning(theme, "cursor_color")
         \o (IF "palette" \in DOMAIN ValueOf(theme) /\
                TypeOf(ValueOf(theme)["palette"]) = "list"
             THEN LET palette == ValueOf(ValueOf(theme)["palette"])
                  IN  Warn(Len(palette) # 16, "Palette should have 16 colors")
                      \o WarnEach({i \in DOMAIN palette :
                                      ~_is_valid_color(palette[i])},
                                  "Invalid color in palette")
             ELSE << >>)

\* _validate_font(font)
_validate_font(font) ==
    IF TypeOf(font) # "dict" THEN << >>
    ELSE Warn("size" \in DOMAIN ValueOf(font) /\
                  (~isinstance_int(ValueOf(font)["size"]) \/
                   number_of(ValueOf(font)["size"]) <= 0),
              "Font size should be a positive number")
         \o Warn("family" \in DOMAIN ValueOf(font) /\
                     (TypeOf(ValueOf(font)["family"]) # "str" \/
                      is_blank(ValueOf(ValueOf(font)["family"]))),
                 "Font family should be a non-empty string")

\* _validate_keybindings(keybindings)
_validate_keybindings(keybindings) ==
    IF TypeOf(keybindings) # "dict" THEN << >>
    ELSE WarnEach({action \in DOMAIN ValueOf(keybindings) :
                      \/ TypeOf(ValueOf(keybindings)[action]) # "str"
                      \/ is_blank(ValueOf(ValueOf(keybindings)[action]))},
                  "Keybinding should be a non-empty string")

\* _validate_scrollback(scrollback)
_validate_scrollback(scrollback) ==
    Warn(TypeOf(scrollback) # "null" /\
             (~isinstance_int(scrollback) \/ number_of(scrollback) < 0),
         "Scrollback lines should be a non-negative integer")

\* _validate_gpu_acceleration(gpu_acceleration)
_validate_gpu_acceleration(gpu_acceleration) ==
    Warn(TypeOf(gpu_acceleration) # "null" /\ TypeOf(gpu_acceleration) # "bool",
         "GPU acceleration should be true/false")

\* The warning for a key of a section that has to hold a bool.
bool_warning(section, key, message) ==
    Warn(key \in DOMAIN ValueOf(section) /\
             TypeOf(ValueOf(section)[key]) # "bool", message)

\* The range test of max_tabs.
max_tabs_in_range_upto_5(max_tabs) ==
    isinstance_int(max_tabs) /\ number_of(max_tabs) >= 1
        /\ number_of(max_tabs) <= 5

max_tabs_in_range(max_tabs) ==
    isinstance_int(max_tabs) /\ number_of(max_tabs) >= 1
        /\ number_of(max_tabs) <= 50

\* _validate_session_settings(session)
_validate_session_settings(session) ==
    IF TypeOf(session) # "dict" THEN << >>
    ELSE Warn("max_tabs" \in DOMAIN ValueOf(session) /\
                  ~max_tabs_in_range(ValueOf(session)["max_tabs"]),
              "max_tabs should be between 1 and 50")
         \o bool_warning(session, "save_on_exit",
                         "save_on_exit should be true/false")
         \o bool_warning(session, "restore_on_start",
                         "restore_on_start should be true/false")

\* The warnings for the 'enabled' or 'disabled' list of the plugins section.
plugin_list_warnings(plugins, key, message) ==
    IF key \notin DOMAIN ValueOf(plugins) THEN << >>
    ELSE IF TypeOf(ValueOf(plugins)[key]) # "list" THEN <<message>>
    ELSE WarnEach({i \in DOMAIN ValueOf(ValueOf(plugins)[key]) :
                      TypeOf(ValueOf(ValueOf(plugins)[key])[i]) # "str"},
                  "Plugin name should be string")

\* _validate_plugin_settings(plugins)
_validate_plugin_settings(plugins) ==
    IF TypeOf(plugins) # "dict" THEN << >>
    ELSE bool_warning(plugins, "auto_load", "auto_load should be true/false")
         \o plugin_list_warnings(plugins, "enabled",
                                 "enabled should be a list of plugin names")
         \o plugin_list_warnings(plugins, "disabled",
                                 "disabled should be a list of plugin names")

\* _validate_performance_settings(performance)
_validate_performance_settings(performance) ==
    IF TypeOf(performance) # "dict" THEN << >>
    ELSE Warn("max_scrollback" \in DOMAIN ValueOf(performance) /\
                  (\/ ~isinstance_int(ValueOf(performance)["max_scrollback"])
                   \/ number_of(ValueOf(performance)["max_scrollback"]) < 100
                   \/ number_of(ValueOf(performance)["max_scrollback"]) > 1000000),
              "max_scrollback should be between 100 and 1000000")
         \o bool_warning(performance, "terminal_bell",
                         "terminal_bell should be true/false")
         \o bool_warning(performance, "cursor_blink",
                         "cursor_blink should be true/false")
         \o Warn("cursor_shape" \in DOMAIN ValueOf(performance) /\
                     ValueOf(performance)["cursor_shape"] \notin
                        {Str("block"), Str("ibeam"), Str("underline")},
                 "cursor_shape should be one of block, ibeam, underline")

\* validate(config) with the tree the merge starts from: errors and warnings
\* are reset, config is merged into the tree, the validators append their
\* warnings, the merged tree is returned.
validate_from(start, config) ==
    LET validated_config == _merge_config(start, config)
    IN  [errors |-> << >>,
         warnings |->
            _validate_theme(dict_get(validated_config, "theme", Dict(EmptyDict)))
            \o _validate_font(dict_get(validated_config, "font", Dict(EmptyDict)))
            \o _validate_keybindings(
                  dict_get(validated_config, "keybindings", Dict(EmptyDict)))
            \o _validate_scrollback(
                  dict_get(validated_config, "scrollback_lines", Null))
            \o _validate_gpu_acceleration(
                  dict_get(validated_config, "gpu_acceleration", Null))
            \o _validate_session_settings(
                  dict_get(validated_config, "session", Dict(EmptyDict)))
            \o _validate_plugin_settings(
                  dict_get(validated_config, "plugins", Dict(EmptyDict)))
            \o _validate_performance_settings(
                  dict_get(validated_config, "performance", Dict(EmptyDict))),
         ret |-> validated_config]

\* validate(config): the merge starts from a tree get_default_config() builds
\* for this call. (validate_reusing_tree starts from the tree the previous
\* call returned.)
validate_reusing_tree(config) ==
    validate_from(IF cv_last.op = "init" THEN get_default_config
                  ELSE cv_last.ret, config)

validate(config) == validate_from(get_default_config, config)

-----------------------------------------------------------------------------
(* Python strings as sequences of characters *)

\* A str the code takes apart is the sequence of its characters; text(s) is
\* the same str as a key or a value of a document.
RECURSIVE text(_)
text(s) == IF s = << >> THEN "" ELSE Head(s) \o text(Tail(s))

\* c in s
contains(s, c) == \E i \in DOMAIN s : s[i] = c

\* s.find(c) + 1: the first position of c in s, 0 when there is none.
find(s, c) ==
    IF contains(s, c) THEN CHOOSE i \in DOMAIN s :
                              s[i] = c /\ \A j \in 1..(i - 1) : s[j] # c
    ELSE 0

\* s.strip(chars): s from its first to its last character outside chars.
strip_chars(s, chars) ==
    LET kept == {i \in DOMAIN s : s[i] \notin chars}
    IN  IF kept = {} THEN << >>
        ELSE SubSeq(s, CHOOSE i \in kept : \A j \in kept : i <= j,
                       CHOOSE i \in kept : \A j \in kept : i >= j)

\* s.strip(): the characters removed are the whitespace of the texts.
strip(s) == strip_chars(s, {" ", "\t", "\r", "\n"})

\* s.partition(c)[0] and s.partition(c)[2]: s before and after the first c
\* (all of s, and the empty str, when there is none).
before(s, c) == IF contains(s, c) THEN SubSeq(s, 1, find(s, c) - 1) ELSE s

after(s, c) ==
    IF contains(s, c) THEN SubSeq(s, find(s, c) + 1, Len(s)) ELSE << >>

\* s.startswith(c), s.endswith(c) for a one-character c
startswith(s, c) == s # << >> /\ s[1] = c

endswith(s, c) == s # << >> /\ s[Len(s)] = c

\* s.split(sep) for a one-character sep: the list of the pieces.
RECURSIVE split(_, _)
split(s, sep) ==
    IF ~contains(s, sep) THEN <<s>>
    ELSE <<before(s, sep)>> \o split(after(s, sep), sep)

\* sep.join(pieces) for a one-character sep
RECURSIVE join(_, _)
join(pieces, sep) ==
    IF Len(pieces) = 0 THEN << >>
    ELSE IF Len(pieces) = 1 THEN pieces[1]
    ELSE pieces[1] \o <<sep>> \o join(Tail(pieces), sep)

\* s.lower()
lower(s) ==
    LET lower_char(c) ==
            CASE c = "A" -> "a" [] c = "B" -> "b" [] c = "C" -> "c"
              [] c = "D" -> "d" [] c = "E" -> "e" [] c = "F" -> "f"
              [] c = "G" -> "g" [] c = "H" -> "h" [] c = "I" -> "i"
              [] c = "J" -> "j" [] c = "K" -> "k" [] c = "L" -> "l"
              [] c = "M" -> "m" [] c = "N" -> "n" [] c = "O" -> "o"
              [] c = "P" -> "p" [] c = "Q" -> "q" [] c = "R" -> "r"
              [] c = "S" -> "s" [] c = "T" -> "t" [] c = "U" -> "u"
              [] c = "V" -> "v" [] c = "W" -> "w" [] c = "X" -> "x"
              [] c = "Y" -> "y" [] c = "Z" -> "z" [] OTHER -> c
    IN  [i \in DOMAIN s |-> lower_char(s[i])]

-----------------------------------------------------------------------------
(* float() and int() of a str *)

Digits == {"0", "1", "2", "3", "4", "5", "6", "7", "8", "9"}

\* A digit part of a numeric literal: digits, with single underscores allowed
\* between two digits.
is_digit_part(s) ==
    /\ s # << >>
    /\ \A i \in DOMAIN s : s[i] \in Digits \cup {"_"}
    /\ \A i \in DOMAIN s :
          s[i] = "_" => /\ i > 1 /\ i < Len(s)
                        /\ s[i - 1] \in Digits /\ s[i + 1] \in Digits

\* The number a digit part denotes.
RECURSIVE digits_value(_)
digits_value(s) ==
    LET digit_value(c) ==
            CASE c = "0" -> 0 [] c = "1" -> 1 [] c = "2" -> 2 [] c = "3" -> 3
              [] c = "4" -> 4 [] c = "5" -> 5 [] c = "6" -> 6 [] c = "7" -> 7
              [] c = "8" -> 8 [] c = "9" -> 9
    IN  IF s = << >> THEN 0
        ELSE IF s[Len(s)] = "_" THEN digits_value(SubSeq(s, 1, Len(s) - 1))
        ELSE 10 * digits_value(SubSeq(s, 1, Len(s) - 1))
                + digit_value(s[Len(s)])

\* A literal without its sign.
unsigned(s) == IF startswith(s, "+") \/ startswith(s, "-") THEN Tail(s) ELSE s


\* int(s) does not raise ValueError (s is stripped already).
is_int_literal(s) == is_digit_part(unsigned(s))

\* int(s)
int_value(s) ==
    (IF startswith(s, "-") THEN -1 ELSE 1) * digits_value(unsigned(s))

\* float(s) does not raise ValueError: an optional sign, then inf, infinity
\* or nan in any case, or digits with an optional point and an optional
\* exponent.
is_float_literal(s) ==
    \/ lower(unsigned(s)) \in {<<"i", "n", "f">>, <<"n", "a", "n">>,
                               <<"i", "n", "f", "i", "n", "i", "t", "y">>}
    \/ LET m == before(lower(unsigned(s)), "e")
       IN  /\ before(m, ".") = << >> \/ is_digit_part(before(m, "."))
           /\ after(m, ".") = << >> \/ is_digit_part(after(m, "."))
           /\ before(m, ".") # << >> \/ after(m, ".") # << >>
           /\ contains(lower(unsigned(s)), "e") =>
                  is_int_literal(after(lower(unsigned(s)), "e"))

\* A float is the pair <<m, e>> of m * 10^e, with m not a multiple of 10
\* (0.0 is <<0, 0>>).
RECURSIVE normal(_, _)
normal(m, e) ==
    IF m = 0 THEN <<0, 0>>
    ELSE IF m % 10 = 0 THEN normal(m \div 10, e + 1)
    ELSE <<m, e>>

\* float(s) of a literal with digits: the digits before and after the point
\* of the mantissa, and the exponent after the e (0 without one).
float_value(s) ==
    LET m == before(lower(unsigned(s)), "e")
        shift == Cardinality({i \in DOMAIN after(m, ".") :
                                 after(m, ".")[i] \in Digits})
        scale == IF shift = 0 THEN 1 ELSE 10 ^ shift
    IN  normal((IF startswith(s, "-") THEN -1 ELSE 1) *
                  (digits_value(before(m, ".")) * scale
                     + digits_value(after(m, "."))),
               int_value(after(lower(unsigned(s)), "e")) - shift)

-----------------------------------------------------------------------------
(* config.Config *)

\* The result of a call: the value returned (Null when it raised) and the
\* exception that left it.
Returned(v) == [ret |-> v, exc |-> "none"]

Raised(e) == [ret |-> Null, exc |-> e]

\* A file: whether it exists, and its text.
NoFile == [exists |-> FALSE, text |-> ""]

File(t) == [exists |-> TRUE, text |-> t]

\* json.load(f) on the texts of the model: the document of a JSON text,
\* JSONDecodeError for a text that is not JSON.
json_load(t) ==
    CASE t = "{}" -> Returned(Dict(EmptyDict))
      [] t = "{\"font\": {\"size\": 14}, \"scrollback_lines\": null}" ->
            Returned(Dict("font" :> Dict("size" :> Num(14)) @@
                          "scrollback_lines" :> Null))
      [] t = "{\"gpu_acceleration\": false, \"a.b\": 1}" ->
            Returned(Dict("gpu_acceleration" :> Bool(FALSE) @@
                          "a.b" :> Num(1)))
      [] t = "[\"font\", \"size\"]" ->
            Returned(List(<<Str("font"), Str("size")>>))
      [] t = "{\"version\": \"1.0\", \"tabs\": [], \"active_tab\": 0}" ->
            Returned(Dict("version" :> Str("1.0") @@
                          "tabs" :> List(<< >>) @@
                          "active_tab" :> Num(0)))
      [] t = "{\"version\": \"2.0\", \"tabs\": []}" ->
            Returned(Dict("version" :> Str("2.0") @@
                          "tabs" :> List(<< >>)))
      [] OTHER -> Raised("JSONDecodeError")

\* Config.get_default_config()
Config_get_default_config ==
    Dict(
        "ui_theme" :> Str("Default") @@
        "theme" :> Dict(
            "background_color" :> Str("#000000") @@
            "foreground_color" :> Str("#FFFFFF") @@
            "cursor_color" :> Str("#FFFFFF") @@
            "palette" :> List(<< Str("#000000"), Str("#800000"), Str("#008000"),
                    Str("#808000"), Str("#000080"), Str("#800080"),
                    Str("#008080"), Str("#C0C0C0"), Str("#808080"),
                    Str("#FF0000"), Str("#00FF00"), Str("#FFFF00"),
                    Str("#0000FF"), Str("#FF00FF"), Str("#00FFFF"),
                    Str("#FFFFFF") >>)) @@
        "ui_themes" :> Dict(
            "Default" :> Dict(
                "menu_bar_bg" :> Str("#F5F5F5") @@
                "menu_bar_fg" :> Str("#000000") @@
                "menu_item_bg" :> Str("#FFFFFF") @@
                "menu_item_fg" :> Str("#000000") @@
                "menu_item_hover_bg" :> Str("#E0E0E0") @@
                "menu_item_hover_fg" :> Str("#000000") @@
                "tab_bar_bg" :> Str("#E8E8E8") @@
                "tab_bg" :> Str("#D0D0D0") @@
                "tab_fg" :> Str("#000000") @@
                "tab_active_bg" :> Str("#FFFFFF") @@
                "tab_active_fg" :> Str("#000000") @@
                "tab_hover_bg" :> Str("#C0C0C0") @@
                "tab_hover_fg" :> Str("#000000") @@
                "button_bg" :> Str("#E0E0E0") @@
                "button_fg" :> Str("#000000") @@
                "window_bg" :> Str("#FFFFFF")) @@
            "Dark" :> Dict(
                "menu_bar_bg" :> Str("#2D2D2D") @@
                "menu_bar_fg" :> Str("#FFFFFF") @@
                "menu_item_bg" :> Str("#3C3C3C") @@
                "menu_item_fg" :> Str("#FFFFFF") @@
                "menu_item_hover_bg" :> Str("#4A4A4A") @@
                "menu_item_hover_fg" :> Str("#FFFFFF") @@
                "tab_bar_bg" :> Str("#2D2D2D") @@
                "tab_bg" :> Str("#3C3C3C") @@
                "tab_fg" :> Str("#FFFFFF") @@
                "tab_active_bg" :> Str("#4A4A4A") @@
                "tab_active_fg" :> Str("#FFFFFF") @@
                "tab_hover_bg" :> Str("#555555") @@
                "tab_hover_fg" :> Str("#FFFFFF") @@
                "button_bg" :> Str("#4A4A4A") @@
                "button_fg" :> Str("#FFFFFF") @@
                "window_bg" :> Str("#2D2D2D")) @@
            "OLED" :> Dict(
                "menu_bar_bg" :> Str("#000000") @@
                "menu_bar_fg" :> Str("#FFFFFF") @@
                "menu_item_bg" :> Str("#0A0A0A") @@
                "menu_item_fg" :> Str("#FFFFFF") @@
                "menu_item_hover_bg" :> Str("#1A1A1A") @@
                "menu_item_hover_fg" :> Str("#FFFFFF") @@
                "tab_bar_bg" :> Str("#000000") @@
                "tab_bg" :> Str("#0A0A0A") @@
                "tab_fg" :> Str("#CCCCCC") @@
                "tab_active_bg" :> Str("#1A1A1A") @@
                "tab_active_fg" :> Str("#FFFFFF") @@
                "tab_hover_bg" :> Str("#2A2A2A") @@
                "tab_hover_fg" :> Str("#FFFFFF") @@
                "button_bg" :> Str("#1A1A1A") @@
                "button_fg" :> Str("#FFFFFF") @@
                "window_bg" :> Str("#000000"))) @@
        "font" :> Dict(
            "family" :> Str("Monospace") @@
            "size" :> Num(12)) @@
        "keybindings" :> Dict(
            "copy" :> Str("<Ctrl><Shift>C") @@
            "paste" :> Str("<Ctrl><Shift>V") @@
            "new_tab" :> Str("<Ctrl><Shift>T") @@
            "close_tab" :> Str("<Ctrl><Shift>W") @@
            "next_tab" :> Str("<Ctrl>Page_Down") @@
            "prev_tab" :> Str("<Ctrl>Page_Up") @@
            "split_horizontal" :> Str("<Ctrl><Alt>H") @@
            "split_vertical" :> Str("<Ctrl><Alt>V") @@
            "close_pane" :> Str("<Ctrl><Alt>Q") @@
            "zoom_in" :> Str("<Ctrl>plus") @@
            "zoom_out" :> Str("<Ctrl>minus") @@
            "reset_zoom" :> Str("<Ctrl>0") @@
            "find" :> Str("<Ctrl><Shift>F") @@
            "command_palette" :> Str("<Ctrl><Shift>P") @@
            "preferences" :> Str("<Ctrl>comma") @@
            "toggle_fullscreen" :> Str("F11") @@
            "new_window" :> Str("<Ctrl><Shift>N") @@
            "quit" :> Str("<Ctrl><Alt>Q") @@
            "scroll_up" :> Str("<Ctrl><Shift>Up") @@
            "scroll_down" :> Str("<Ctrl><Shift>Down") @@
            "scroll_to_top" :> Str("<Ctrl>Home") @@
            "scroll_to_bottom" :> Str("<Ctrl>End") @@
            "page_up" :> Str("Page_Up") @@
            "page_down" :> Str("Page_Down") @@
            "select_all" :> Str("<Ctrl><Shift>A") @@
            "select_word" :> Str("<Ctrl><Alt>W") @@
            "select_line" :> Str("<Ctrl><Shift>L") @@
            "clear_selection" :> Str("Escape") @@
            "split_pane_h" :> Str("<Ctrl><Alt>H") @@
            "split_pane_v" :> Str("<Ctrl><Alt>V")) @@
        "scrollback_lines" :> Num(1000) @@
        "gpu_acceleration" :> Bool(TRUE) @@
        "restore_session" :> Bool(TRUE) @@
        "show_menu_bar" :> Bool(TRUE) @@
        "show_status_bar" :> Bool(FALSE) @@
        "auto_save_session" :> Bool(TRUE) @@
        "audible_bell" :> Bool(FALSE) @@
        "urgent_bell" :> Bool(TRUE) @@
        "mouse_autohide" :> Bool(FALSE) @@
        "debug_mode" :> Bool(FALSE) @@
        "log_commands" :> Bool(FALSE) @@
        "plugins" :> Dict(
            "enabled" :> List(<< >>) @@
            "disabled" :> List(<< >>) @@
            "auto_load" :> Bool(TRUE)) @@
        "session" :> Dict(
            "max_tabs" :> Num(10) @@
            "save_on_exit" :> Bool(TRUE) @@
            "restore_on_start" :> Bool(TRUE)) @@
        "performance" :> Dict(
            "max_scrollback" :> Num(10000) @@
            "terminal_bell" :> Bool(TRUE) @@
            "cursor_blink" :> Bool(TRUE) @@
            "cursor_shape" :> Str("block")))

\* Config.load_config(): `exists` and the text are those of config_path.
Config_load_config(file) ==
    IF file.exists THEN json_load(file.text)
    ELSE Returned(Config_get_default_config)

\* Config.__init__(config_path): without a config_path the packaged default
\* file is copied to the user's path when the user has no file; self.config is
\* what load_config returns. An exception of load_config leaves __init__.
Config_init(path_given, file, packaged) ==
    Config_load_config(IF ~path_given /\ ~file.exists /\ packaged.exists
                       THEN packaged ELSE file)

\* The loop of Config.get with a miss that returns the value reached so far.
RECURSIVE get_from_reached(_, _, _)
get_from_reached(value, keys, default) ==
    IF keys = << >> THEN value
    ELSE IF TypeOf(value) = "dict" /\ text(Head(keys)) \in DOMAIN ValueOf(value)
    THEN get_from_reached(ValueOf(value)[text(Head(keys))], Tail(keys), default)
    ELSE value

\* The loop of Config.get over the keys that are left.
RECURSIVE get_from(_, _, _)
get_from(value, keys, default) ==
    IF keys = << >> THEN value
    ELSE IF TypeOf(value) = "dict" /\ text(Head(keys)) \in DOMAIN ValueOf(value)
    THEN get_from(ValueOf(value)[text(Head(keys))], Tail(keys), default)
    ELSE default

\* Config.get(key, default)
Config_get(config, key, default) ==
    Returned(get_from(config, split(key, "."), default))

-----------------------------------------------------------------------------
(* config_parser.ConfigParser *)

\* The parser's fields: line_number, errors, warnings.
Parser(line_number, errors, warnings) ==
    [line_number |-> line_number, errors |-> errors, warnings |-> warnings]

\* self.warnings.append(f"Line {self.line_number}: <message>: {line}")
warn(cp, message, line) ==
    [cp EXCEPT !.warnings = Append(cp.warnings,
        [line |-> cp.line_number, message |-> message, text |-> text(line)])]

\* `not line or line.startswith('#')`
blank_or_comment(line) == line = << >> \/ startswith(line, "#")

\* _is_number(value): float(value) does not raise.
_is_number(value) == is_float_literal(value)

\* _parse_number(value): float(value) with a '.', int(value) without; the
\* text itself when that raises ValueError.
_parse_number(value) ==
    IF contains(value, ".") THEN
        IF is_float_literal(value) THEN Float(float_value(value))
        ELSE Str(text(value))
    ELSE IF is_int_literal(value) THEN Num(int_value(value))
         ELSE Str(text(value))

\* _parse_array(array_str)
_parse_array(array_str) ==
    LET inner == strip(SubSeq(array_str, 2, Len(array_str) - 1))
        pieces == split(inner, ",")
        items == [i \in DOMAIN pieces |->
                     strip_chars(strip(pieces[i]), {"\"", "'"})]
        kept == SelectSeq(items, LAMBDA item : item # << >>)
    IN  IF inner = << >> THEN List(<< >>)
        ELSE List([i \in DOMAIN kept |-> Str(text(kept[i]))])

\* What _parse_key_value returns: (key, value); (None, None) is the pair
\* with `none` set.
KeyValue(none, key, value) == [none |-> none, key |-> key, value |-> value]

\* _parse_key_value(line). Nothing in its try block raises, so its except
\* branch, the one place that appends to self.errors, is never entered.
_parse_key_value(line) ==
    IF ~contains(line, "=") THEN KeyValue(TRUE, << >>, Null)
    ELSE
    LET key == strip(before(line, "="))
        value_part == strip(after(line, "="))
    IN  IF lower(value_part) \in {<<"t", "r", "u", "e">>,
                                  <<"f", "a", "l", "s", "e">>}
        THEN KeyValue(FALSE, key, Bool(lower(value_part) = <<"t", "r", "u", "e">>))
        ELSE IF startswith(value_part, "[") /\ endswith(value_part, "]")
        THEN KeyValue(FALSE, key, _parse_array(value_part))
        ELSE IF startswith(value_part, "\"") /\ endswith(value_part, "\"")
        THEN KeyValue(FALSE, key, Str(text(SubSeq(value_part, 2,
                                           Len(value_part) - 1))))
        ELSE IF _is_number(value_part)
        THEN KeyValue(FALSE, key, _parse_number(value_part))
        ELSE KeyValue(FALSE, key, Str(text(value_part)))

\* `if key: config[key] = value`
store(config, kv) ==
    IF ~kv.none /\ kv.key # << >> THEN Put(config, text(kv.key), kv.value)
    ELSE config

\* The while loop of _parse_section from the line at position k (counted
\* from 1): the section's dict, the position after it, the parser.
RECURSIVE section_from(_, _, _, _)
section_from(lines, k, section_config, cp) ==
    IF k > Len(lines)
    THEN [section_config |-> section_config, k |-> k, cp |-> cp]
    ELSE
    LET line == strip(lines[k])
        here == [cp EXCEPT !.line_number = k]
    IN  IF line = <<"}">> \/ (startswith(line, "}") /\ endswith(line, "}"))
        THEN [section_config |-> section_config, k |-> k + 1, cp |-> here]
        ELSE IF blank_or_comment(line)
        THEN section_from(lines, k + 1, section_config, here)
        ELSE IF contains(line, "=")
        THEN section_from(lines, k + 1,
                          store(section_config, _parse_key_value(line)), here)
        ELSE section_from(lines, k + 1, section_config,
                          warn(here, "Unrecognized syntax in section", line))

\* _parse_section(lines, start_i)
_parse_section(lines, k, cp) == section_from(lines, k, EmptyDict, cp)

\* `line.startswith('}') or line.endswith('{')`: the lines _parse_content
\* skips as section endings and beginnings.
skips_brace_line(line) == startswith(line, "}") \/ endswith(line, "{")

\* The while loop of _parse_content from the line at position k: the dict
\* and the parser.
RECURSIVE content_from(_, _, _, _)
content_from(lines, k, config, cp) ==
    IF k > Len(lines) THEN [config |-> config, cp |-> cp]
    ELSE
    LET line == strip(lines[k])
        here == [cp EXCEPT !.line_number = k]
    IN  IF blank_or_comment(line)
        THEN content_from(lines, k + 1, config, here)
        ELSE IF skips_brace_line(line)
        THEN content_from(lines, k + 1, config, here)
        ELSE IF contains(line, "=") /\ ~endswith(line, "{")
        THEN content_from(lines, k + 1,
                          store(config, _parse_key_value(line)), here)
        ELSE IF endswith(line, "{")
        THEN LET section == _parse_section(lines, k + 1, here)
             IN  content_from(lines, section.k,
                     Put(config, text(strip(SubSeq(line, 1, Len(line) - 1))),
                         Dict(section.section_config)),
                     section.cp)
        ELSE content_from(lines, k + 1, config,
                          warn(here, "Unrecognized syntax", line))

\* _parse_content(content)
_parse_content(content, cp) == content_from(split(content, "\n"), 1, EmptyDict, cp)

\* The loop of _parse_content that stops at the first unrecognized line.
parse_stopping(content) ==
    LET lines == split(content, "\n")
        bad == {k \in DOMAIN lines :
                   /\ ~blank_or_comment(strip(lines[k]))
                   /\ ~skips_brace_line(strip(lines[k]))
                   /\ ~contains(strip(lines[k]), "=")}
        r == content_from(lines, 1, EmptyDict, Parser(0, << >>, << >>))
        cut == CHOOSE k \in bad : \A j \in bad : k <= j
        c == content_from(SubSeq(lines, 1, cut), 1, EmptyDict,
                          Parser(0, << >>, << >>))
    IN  IF strip(content) = << >>
        THEN [ret |-> Dict(EmptyDict), cp |-> Parser(0, << >>, << >>)]
        ELSE IF bad = {} THEN [ret |-> Dict(r.config), cp |-> r.cp]
        ELSE [ret |-> Dict(c.config), cp |-> c.cp]

\* parse(content): the fields are reset, blank content gives {}. Nothing in
\* _parse_content raises, so the except branch of parse is never entered.
parse(content) ==
    IF strip(content) = << >>
    THEN [ret |-> Dict(EmptyDict), cp |-> Parser(0, << >>, << >>)]
    ELSE LET r == _parse_content(content, Parser(0, << >>, << >>))
         IN  [ret |-> Dict(r.config), cp |-> r.cp]

-----------------------------------------------------------------------------
(* The state machine *)

\* The inputs of a call that consults nothing: the plugin's class resolves, no
\* sub-config file is read, no callback raises.
NoInput == [resolves |-> TRUE, persisted |-> FALSE, load_raises |-> FALSE,
            unload_raises |-> FALSE, raises |-> {}, reentry |-> NoReentry]

\* The inputs of a KeyBindingManager call that takes none.
NoKbInput == [action |-> "", key_combo |-> "", category |-> "",
              config |-> EmptyDict]

\* The registry after KeyBindingManager.__init__: nothing bound yet.
KeyBindingManager_init ==
    /\ bindings = << >>
    /\ categories = EmptyDict
    /\ conflicts = << >>
    /\ kb_last = [op |-> "init", input |-> NoKbInput, ok |-> FALSE,
                  pre |-> cleared]

\* The validator after ConfigValidator.__init__: no errors, no warnings, and
\* no document validated yet.
ConfigValidator_init ==
    /\ cv_errors = << >>
    /\ cv_warnings = << >>
    /\ cv_last = [op |-> "init", config |-> Dict(EmptyDict), ret |-> Null,
                  pre |-> [errors |-> << >>, warnings |-> << >>, ret |-> Null]]

\* The inputs of a Config call that has none.
NoCfgInput == [path_given |-> TRUE, file |-> NoFile, packaged |-> NoFile,
               segments |-> << >>, key |-> << >>, default |-> Null]

\* The inputs of a call on the window's managers that has none: -1 is the
\* page number of a "switch-page" signal that is not emitted.
NoWinInput == [tab |-> None, switched |-> -1, selected |-> -1,
               file |-> NoFile, removable |-> TRUE]

\* The manager after __init__: every dictionary empty. The Config object of
\* a first start: no file at its path, so self.config is the built-in default
\* tree. The parser after ConfigParser.__init__. The tab manager after
\* TabManager.__init__: no tab, no active tab.
Init ==
    /\ KeyBindingManager_init
    /\ ConfigValidator_init
    /\ cfg_config = Config_init(TRUE, NoFile, NoFile).ret
    /\ cfg_last = [op |-> "init", input |-> NoCfgInput, ret |-> Null,
                   exc |-> "none", pre |-> Null]
    /\ cp_line_number = 0
    /\ cp_errors = << >>
    /\ cp_warnings = << >>
    /\ cp_last = [op |-> "init", content |-> << >>, ret |-> Null,
                  pre |-> Parser(0, << >>, << >>)]
    /\ tabs = << >>
    /\ active_tab = None
    /\ tab_serial = 1
    /\ win_last = [op |-> "init", input |-> NoWinInput, ret |-> Null,
                   exc |-> "none", file |-> NoFile, emitted |-> << >>,
                   pre |-> [tabs |-> << >>, active_tab |-> None, serial |-> 1]]
    /\ enabled_plugins = EmptyDict
    /\ disabled_plugins = EmptyDict
    /\ plugin_configs = EmptyDict
    /\ event_hooks = EmptyDict
    /\ objects = EmptyDict
    /\ serial = 1
    /\ last = [op |-> "init", id |-> "", event |-> "", input |-> NoInput,
               ret |-> None, ok |-> FALSE, exc |-> "none", pre |-> EmptyDict,
               calls |-> << >>]

\* The manager's fields after a call that ended in manager state pm.
Store(pm) ==
    /\ enabled_plugins' = pm.enabled_plugins
    /\ disabled_plugins' = pm.disabled_plugins
    /\ plugin_configs' = pm.plugin_configs
    /\ event_hooks' = pm.event_hooks
    /\ objects' = pm.objects
    /\ serial' = pm.serial

\* The operations declared "-> bool"; load_plugin returns a plugin object or
\* None, emit_event returns None.
ReturnsBool == {"unload_plugin", "enable_plugin", "disable_plugin",
                "reload_plugin"}

\* The record of a call that ended with result r: ret holds an object or None,
\* ok a boolean result; a call that raised has neither.
Record(op, id, event, input, r) ==
    [op |-> op, id |-> id, event |-> event, input |-> input,
     ret |-> IF op \in ReturnsBool \/ r.exc # "none" THEN None ELSE r.ret,
     ok |-> op \in ReturnsBool /\ r.exc = "none" /\ r.ret,
     exc |-> r.exc, pre |-> Manager, calls |-> r.pm.calls]

\* The inputs of a call describe what the environment did when the call
\* consulted it: a callback can raise only in a call that invokes it, and a
\* sub-config file is read only by a load that goes on to on_load.
RaisesWhenCalled(r, input) ==
    /\ input.persisted =>
        \E k \in DOMAIN r.pm.calls : r.pm.calls[k].name = "on_load"
    /\ input.load_raises =>
        \E k \in DOMAIN r.pm.calls : r.pm.calls[k].name = "on_load"
    /\ input.unload_raises =>
        \E k \in DOMAIN r.pm.calls : r.pm.calls[k].name = "on_unload"

LoadPlugin ==
    \E d \in Descriptors, resolves \in BOOLEAN, persisted \in BOOLEAN,
       load_raises \in BOOLEAN :
        LET r == load_plugin(Manager, d, resolves, persisted, load_raises)
            input == [NoInput EXCEPT !.resolves = resolves,
                                     !.persisted = persisted,
                                     !.load_raises = load_raises]
        IN  /\ r.pm.serial <= MaxInst + 1
            /\ resolves \/ ~already_loaded(Manager, d.id)
            /\ RaisesWhenCalled(r, input)
            /\ Store(r.pm)
            /\ UNCHANGED other_than_pm
            /\ last' = Record("load_plugin", d.id, "", input, r)

UnloadPlugin ==
    \E id \in PluginIds, unload_raises \in BOOLEAN :
        LET r == unload_plugin(Manager, id, unload_raises)
            input == [NoInput EXCEPT !.unload_raises = unload_raises]
        IN  /\ RaisesWhenCalled(r, input)
            /\ Store(r.pm)
            /\ UNCHANGED other_than_pm
            /\ last' = Record("unload_plugin", id, "", input, r)

EnablePlugin ==
    \E id \in PluginIds, load_raises \in BOOLEAN :
        LET r == enable_plugin(Manager, id, load_raises)
            input == [NoInput EXCEPT !.load_raises = load_raises]
        IN  /\ RaisesWhenCalled(r, input)
            /\ Store(r.pm)
            /\ UNCHANGED other_than_pm
            /\ last' = Record("enable_plugin", id, "", input, r)

DisablePlugin ==
    \E id \in PluginIds :
        LET r == disable_plugin(Manager, id)
        IN  /\ Store(r.pm)
            /\ UNCHANGED other_than_pm
            /\ last' = Record("disable_plugin", id, "", NoInput, r)

\* The plugin's file is unchanged since its load: its class resolves again.
ReloadPlugin ==
    \E id \in PluginIds, unload_raises \in BOOLEAN, load_raises \in BOOLEAN :
        LET r == reload_plugin(Manager, id, unload_raises, TRUE, FALSE,
                               load_raises)
            input == [NoInput EXCEPT !.resolves = TRUE,
                                     !.load_raises = load_raises,
                                     !.unload_raises = unload_raises]
        IN  /\ r.pm.serial <= MaxInst + 1
            /\ RaisesWhenCalled(r, input)
            /\ Store(r.pm)
            /\ UNCHANGED other_than_pm
            /\ last' = Record("reload_plugin", id, "", input, r)

\* The calls a handler can make back into the manager during a dispatch of
\* event_type: the load of a plugin that is not tracked or the unload of one
\* that is, by the handler at one position of the list.
Reentries(event_type) ==
    {NoReentry} \cup
    {[at |-> k, op |-> op, id |-> id] :
        k \in 1..Len(IF event_type \in DOMAIN event_hooks
                     THEN event_hooks[event_type] ELSE << >>),
        op \in {"load", "unload"}, id \in PluginIds}

EmitEvent ==
    \E event_type \in EventTypes :
        \E raises \in SUBSET (1..Len(IF event_type \in DOMAIN event_hooks
                                     THEN event_hooks[event_type] ELSE << >>)),
           reentry \in Reentries(event_type) :
            LET r == emit_event(Manager, event_type, raises, reentry)
                input == [NoInput EXCEPT !.raises = raises,
                                         !.reentry = reentry]
            IN  /\ reentry # NoReentry => raises = {}
                /\ reentry.op = "load" => ~already_loaded(Manager, reentry.id)
                /\ reentry.op = "unload" => already_loaded(Manager, reentry.id)
                /\ r.pm.serial <= MaxInst + 1
                /\ Store(r.pm)
                /\ UNCHANGED other_than_pm
                /\ last' = Record("emit_event", "", event_type, input, r)

Next ==
    \/ LoadPlugin
    \/ UnloadPlugin
    \/ EnablePlugin
    \/ DisablePlugin
    \/ ReloadPlugin
    \/ EmitEvent

Spec == Init /\ [][Next]_vars

-----------------------------------------------------------------------------
(* The state machine of the keybinding registry *)

\* The actions, key combinations and categories the calls are made with:
\* "copy" with every combination in either category, "paste" in its own
\* category with its default combination or that of "copy".
KbActions == {"copy", "paste"}

KbCombos == {"<Ctrl><Shift>C", "<Control><Shift>c", "<Ctrl><Shift>V", "bogus"}

KbCategories == {"terminal", "General"}

KbCalls ==
    {c \in [action : KbActions, key_combo : KbCombos, category : KbCategories] :
        c.action = "paste" =>
            /\ c.key_combo \in {"<Ctrl><Shift>C", "<Ctrl><Shift>V"}
            /\ c.category = "terminal"}

\* The configuration documents load_from_config is called with: one without
\* a keybindings section, and those whose section overrides some of
\* OverrideActions.
OverrideActions == {"copy", "quit"}

OverrideCombos == {"<Ctrl><Shift>V", "bogus"}

KbConfigs ==
    {[font |-> "Monospace"]} \cup
    {[keybindings |-> f] :
        f \in UNION {[S -> OverrideCombos] : S \in SUBSET OverrideActions}}

\* The registry's fields after a call that ended in registry state kb.
KbStore(kb) ==
    /\ bindings' = kb.bindings
    /\ categories' = kb.categories
    /\ conflicts' = kb.conflicts

RegisterBinding ==
    \E c \in KbCalls :
        LET r == register_binding(KbManager, c.action, c.key_combo, c.category)
        IN  /\ Len(r.kb.conflicts) <= MaxConflicts
            /\ KbStore(r.kb)
            /\ kb_last' = [op |-> "register_binding",
                           input |-> [NoKbInput EXCEPT !.action = c.action,
                                                       !.key_combo = c.key_combo,
                                                       !.category = c.category],
                           ok |-> r.ret, pre |-> KbManager]
            /\ UNCHANGED other_than_kb

UnregisterBinding ==
    \E action \in KbActions :
        LET r == unregister_binding(KbManager, action)
        IN  /\ KbStore(r.kb)
            /\ kb_last' = [op |-> "unregister_binding",
                           input |-> [NoKbInput EXCEPT !.action = action],
                           ok |-> r.ret, pre |-> KbManager]
            /\ UNCHANGED other_than_kb

LoadFromConfig ==
    \E config \in KbConfigs :
        /\ KbStore(load_from_config(KbManager, config))
        /\ kb_last' = [op |-> "load_from_config",
                       input |-> [NoKbInput EXCEPT !.config = config],
                       ok |-> FALSE, pre |-> KbManager]
        /\ UNCHANGED other_than_kb

ResetToDefaults ==
    /\ KbStore(reset_to_defaults(KbManager))
    /\ kb_last' = [op |-> "reset_to_defaults", input |-> NoKbInput,
                   ok |-> FALSE, pre |-> KbManager]
    /\ UNCHANGED other_than_kb

KbNext ==
    \/ RegisterBinding
    \/ UnregisterBinding
    \/ LoadFromConfig
    \/ ResetToDefaults

KbSpec == Init /\ [][KbNext]_vars

-----------------------------------------------------------------------------
(* The state machine of the configuration validator *)

\* The partial documents validate is called with: the empty one, overrides
\* inside and outside the validators' bounds, a null, a scalar in the place of
\* a section, keys the defaults do not have, palettes of either length, with
\* and without an invalid color, and palettes that are not lists.
\* (`solarized` is a palette of 16 valid colors other than the default one.)
PartialDocs ==
    LET solarized ==
            << Str("#1e1e2e"), Str("#FF0000"), Str("#00FF00"), Str("#FFFF00"),
               Str("#0000FF"), Str("#FF00FF"), Str("#00FFFF"), Str("#C0C0C0"),
               Str("#808080"), Str("#800000"), Str("#008000"), Str("#808000"),
               Str("#000080"), Str("#800080"), Str("#008080"), Str("#FFF") >>
    IN
    {Dict(EmptyDict),
     Dict("font" :> Dict("size" :> Num(14))),
     Dict("font" :> Dict("size" :> Num(-1) @@ "family" :> Str(" "))),
     Dict("font" :> Str("Monospace 12")),
     Dict("theme" :> Dict("background_color" :> Str("#1e1e2e") @@
                          "palette" :> List(<<Str("#FFF"), Str("red")>>))),
     Dict("theme" :> Dict("palette" :> Str("solarized"))),
     Dict("session" :> Dict("max_tabs" :> Num(99))),
     Dict("scrollback_lines" :> Null @@ "gpu_acceleration" :> Str("yes")),
     Dict("scrollback_lines" :> Num(500)),
     Dict("plugins" :> Dict("enabled" :> List(<<Str("git"), Num(7)>>) @@
                            "auto_load" :> Bool(FALSE))),
     Dict("performance" :> Dict("cursor_shape" :> Str("beam") @@
                                "max_scrollback" :> Num(50))),
     Dict("keybindings" :> Dict("copy" :> Num(5) @@ "jump" :> Str("<Ctrl>J"))),
     Dict("custom" :> Dict("nested" :> Bool(TRUE)) @@ "debug_mode" :> Bool(TRUE)),
     Dict("scrollback_lines" :> Dict("unit" :> Str("lines"))),
     Dict("font" :> Dict("size" :> Null) @@ "session" :> Null @@
          "extra" :> Null @@ "label" :> Str("work")),
     Dict("session" :> Dict("max_tabs" :> Num(50)) @@
          "performance" :> Dict("max_scrollback" :> Num(100) @@
                                "cursor_shape" :> Str("ibeam"))),
     Dict("session" :> Dict("max_tabs" :> Num(1)) @@
          "performance" :> Dict("max_scrollback" :> Num(1000000) @@
                                "cursor_shape" :> Str("underline"))),
     Dict("session" :> Dict("max_tabs" :> Num(0)) @@
          "performance" :> Dict("max_scrollback" :> Num(99))),
     Dict("session" :> Dict("max_tabs" :> Num(51)) @@
          "performance" :> Dict("max_scrollback" :> Num(1000001))),
     Dict("session" :> Dict("max_tabs" :> Str("many")) @@
          "performance" :> Dict("max_scrollback" :> Str("lots") @@
                                "cursor_shape" :> Num(3))),
     Dict("session" :> Dict("max_tabs" :> Bool(TRUE))),
     Dict("performance" :> Dict("max_scrollback" :> Bool(TRUE))),
     Dict("theme" :> Dict("palette" :> List(solarized))),
     Dict("theme" :> Dict("palette" :> List(
        [solarized EXCEPT ![16] = Str("white")]))),
     Dict("theme" :> Dict("palette" :> List(SubSeq(solarized, 1, 15)))),
     Dict("theme" :> Dict("palette" :> Num(16))),
     Dict("theme" :> Dict("palette" :> Dict("color0" :> Str("#000000"))))}

\* validate is called with a partial document, or with the document the
\* last call returned.
Validate ==
    \E config \in PartialDocs
                    \cup (IF cv_last.op = "init" THEN {} ELSE {cv_last.ret}) :
        LET r == validate(config)
        IN  /\ cv_errors' = r.errors
            /\ cv_warnings' = r.warnings
            /\ cv_last' = [op |-> "validate", config |-> config, ret |-> r.ret,
                           pre |-> [errors |-> cv_errors,
                                    warnings |-> cv_warnings,
                                    ret |-> cv_last.ret]]
            /\ UNCHANGED other_than_cv

CvNext == Validate

CvSpec == Init /\ [][CvNext]_vars

-----------------------------------------------------------------------------
(* The state machine of the settings store *)

\* The files at config_path: none, JSON documents (an object, one with a
\* dotted key, a list), and texts that are not JSON (an empty file, an
\* unquoted key).
Files ==
    {NoFile,
     File("{}"),
     File("{\"font\": {\"size\": 14}, \"scrollback_lines\": null}"),
     File("{\"gpu_acceleration\": false, \"a.b\": 1}"),
     File("[\"font\", \"size\"]"),
     File(""),
     File("{font: 14}")}

\* The dotted paths get is called with, as the lists of their segments.
PathSegments ==
    {<<<<"f", "o", "n", "t">>, <<"s", "i", "z", "e">>>>,
     <<<<"f", "o", "n", "t">>>>,
     <<<<"f", "o", "n", "t">>, <<"s", "i", "z", "e">>, <<"p", "o", "i", "n", "t", "s">>>>,
     <<<<"t", "h", "e", "m", "e">>, <<"p", "a", "l", "e", "t", "t", "e">>>>,
     <<<<"m", "i", "s", "s", "i", "n", "g">>>>,
     <<<< >>>>,
     <<<<"f", "o", "n", "t">>, << >>>>,
     <<<<"u", "i", "_", "t", "h", "e", "m", "e", "s">>, <<"D", "a", "r", "k">>, <<"t", "a", "b", "_", "b", "g">>>>,
     <<<<"g", "p", "u", "_", "a", "c", "c", "e", "l", "e", "r", "a", "t", "i", "o", "n">>>>,
     <<<<"s", "c", "r", "o", "l", "l", "b", "a", "c", "k", "_", "l", "i", "n", "e", "s">>>>,
     <<<<"a">>, <<"b">>>>,
     <<<<"f", "o", "n", "t">>, <<"m", "i", "s", "s", "i", "n", "g">>, <<"s", "i", "z", "e">>>>}

\* Config(config_path): the packaged default file next to the sources is
\* absent or holds {}.
NewConfig ==
    \E path_given \in BOOLEAN, file \in Files, packaged \in {NoFile, File("{}")} :
        LET r == Config_init(path_given, file, packaged)
        IN  /\ cfg_config' = IF r.exc = "none" THEN r.ret ELSE cfg_config
            /\ cfg_last' = [op |-> "Config",
                            input |-> [NoCfgInput EXCEPT
                                          !.path_given = path_given,
                                          !.file = file,
                                          !.packaged = packaged],
                            ret |-> r.ret, exc |-> r.exc, pre |-> cfg_config]
            /\ UNCHANGED <<pm_vars, kb_vars, cv_vars, cp_vars, win_vars>>

\* get(key, default) with a fallback of each type.
ConfigGet ==
    \E segments \in PathSegments,
       default \in {Null, Bool(TRUE), Num(0), Str("fallback")} :
        LET key == join(segments, ".")
            r == Config_get(cfg_config, key, default)
        IN  /\ cfg_config' = cfg_config
            /\ cfg_last' = [op |-> "get",
                            input |-> [NoCfgInput EXCEPT
                                          !.segments = segments,
                                          !.key = key,
                                          !.default = default],
                            ret |-> r.ret, exc |-> r.exc, pre |-> cfg_config]
            /\ UNCHANGED <<pm_vars, kb_vars, cv_vars, cp_vars, win_vars>>

CfgNext ==
    \/ NewConfig
    \/ ConfigGet

CfgSpec == Init /\ [][CfgNext]_vars

-----------------------------------------------------------------------------
(* The state machine of the configuration parser *)

\* scrollback_lines = 500
ScrollbackLine ==
    <<"s", "c", "r", "o", "l", "l", "b", "a", "c", "k", "_", "l", "i",
      "n", "e", "s", " ", "=", " ", "5", "0", "0">>

\* font {\n  size = 14\n  family = "Mono"\n}
SectionContent ==
    <<"f", "o", "n", "t", " ", "{", "\n", " ", " ", "s", "i", "z", "e",
      " ", "=", " ", "1", "4", "\n", " ", " ", "f", "a", "m", "i", "l",
      "y", " ", "=", " ", "\"", "M", "o", "n", "o", "\"", "\n", "}">>

\* session {\nmax_tabs = 5\n}\ndebug = true
SectionThenKey ==
    <<"s", "e", "s", "s", "i", "o", "n", " ", "{", "\n", "m", "a", "x",
      "_", "t", "a", "b", "s", " ", "=", " ", "5", "\n", "}", "\n", "d",
      "e", "b", "u", "g", " ", "=", " ", "t", "r", "u", "e">>

\* hello\na = 1\n??\nb = ok
WarningThenKeys ==
    <<"h", "e", "l", "l", "o", "\n", "a", " ", "=", " ", "1", "\n", "?",
      "?", "\n", "b", " ", "=", " ", "o", "k">>

\* The texts parse is called with: blank texts, key/value lines of every
\* value form, sections, and lines that are neither.
Contents ==
    {\* (the empty str)
     << >>,
     \*   \n\t\n
     <<" ", " ", "\n", "\t", "\n">>,
     ScrollbackLine,
     SectionContent,
     SectionThenKey,
     \* hello world
     <<"h", "e", "l", "l", "o", " ", "w", "o", "r", "l", "d">>,
     \* } end
     <<"}", " ", "e", "n", "d">>,
     \* }}
     <<"}", "}">>,
     \* font {
     <<"f", "o", "n", "t", " ", "{">>,
     \* x = 1e5
     <<"x", " ", "=", " ", "1", "e", "5">>,
     \* x = inf
     <<"x", " ", "=", " ", "i", "n", "f">>,
     \* x = NaN
     <<"x", " ", "=", " ", "N", "a", "N">>,
     \* x = 2.50
     <<"x", " ", "=", " ", "2", ".", "5", "0">>,
     \* x = -3
     <<"x", " ", "=", " ", "-", "3">>,
     \* x = .5
     <<"x", " ", "=", " ", ".", "5">>,
     \* x = 1_000
     <<"x", " ", "=", " ", "1", "_", "0", "0", "0">>,
     \* x = 1.2.3
     <<"x", " ", "=", " ", "1", ".", "2", ".", "3">>,
     \* x = "5"
     <<"x", " ", "=", " ", "\"", "5", "\"">>,
     \* shell = /bin/sh
     <<"s", "h", "e", "l", "l", " ", "=", " ", "/", "b", "i", "n", "/",
        "s", "h">>,
     \* flag = TRUE
     <<"f", "l", "a", "g", " ", "=", " ", "T", "R", "U", "E">>,
     \* enabled = [plugin_a, "plugin_b", ]
     <<"e", "n", "a", "b", "l", "e", "d", " ", "=", " ", "[", "p", "l",
        "u", "g", "i", "n", "_", "a", ",", " ", "\"", "p", "l", "u", "g",
        "i", "n", "_", "b", "\"", ",", " ", "]">>,
     WarningThenKeys,
     \* = 5\n# note\n\nc = 7
     <<"=", " ", "5", "\n", "#", " ", "n", "o", "t", "e", "\n", "\n", "c",
        " ", "=", " ", "7">>,
     \* a = {\nb = 2
     <<"a", " ", "=", " ", "{", "\n", "b", " ", "=", " ", "2">>}

Parse ==
    \E content \in Contents :
        LET r == parse(content)
        IN  /\ cp_line_number' = r.cp.line_number
            /\ cp_errors' = r.cp.errors
            /\ cp_warnings' = r.cp.warnings
            /\ cp_last' = [op |-> "parse", content |-> content, ret |-> r.ret,
                           pre |-> Parser(cp_line_number, cp_errors,
                                          cp_warnings)]
            /\ UNCHANGED <<pm_vars, kb_vars, cv_vars, cfg_vars, win_vars>>

CpNext == Parse

CpSpec == Init /\ [][CpNext]_vars

-----------------------------------------------------------------------------
(* session_manager.SessionManager *)

\* restore_session() with `file` at session_file; `removable` tells whether
\* os.remove succeeds. The result is the value returned and the file that is
\* left at session_file. An empty file returns before it is opened; a text
\* that is not JSON raises JSONDecodeError, whose handler removes the file and
\* swallows a failure to remove it; a document that is no object has no
\* .get, and the AttributeError is caught by the last handler.
restore_session(file, removable) ==
    IF ~file.exists THEN [ret |-> Null, file |-> file]
    ELSE IF file.text = "" THEN [ret |-> Null, file |-> file]
    ELSE IF json_load(file.text).exc = "JSONDecodeError"
    THEN [ret |-> Null, file |-> IF removable THEN NoFile ELSE file]
    ELSE IF TypeOf(json_load(file.text).ret) # "dict"
    THEN [ret |-> Null, file |-> file]
    ELSE IF dict_get(json_load(file.text).ret, "version", Null) # Str("1.0")
    THEN [ret |-> Null, file |-> file]
    ELSE [ret |-> json_load(file.text).ret, file |-> file]

-----------------------------------------------------------------------------
(* tab_manager.TabManager *)

\* The tab manager: its list of tabs, its active tab, and the identity of the
\* next TerminalTab.
TabManager == [tabs |-> tabs, active_tab |-> active_tab, serial |-> tab_serial]

\* The result of a call on the tab manager.
TabReturn(tm, ret) == [tm |-> tm, ret |-> ret, exc |-> "none"]

\* tab in self.tabs
in_tabs(tm, tab) == \E k \in DOMAIN tm.tabs : tm.tabs[k] = tab

\* self.tabs[i] for a Python index i: a negative index counts from the end.
tab_at(tm, i) == tm.tabs[IF i < 0 THEN Len(tm.tabs) + i + 1 ELSE i + 1]

\* self.tabs.index(tab) and notebook.page_num(tab.get_terminal()): pages are
\* appended and removed together with the tabs; -1 is the page number of a
\* widget that is no page.
page_num_of(tm, tab) ==
    IF in_tabs(tm, tab)
    THEN (CHOOSE k \in DOMAIN tm.tabs : tm.tabs[k] = tab) - 1
    ELSE -1

\* on_tab_switched(notebook, page, page_num), the handler of "switch-page".
on_tab_switched(tm, page_num) ==
    IF 0 <= page_num /\ page_num < Len(tm.tabs)
    THEN [tm EXCEPT !.active_tab = tab_at(tm, page_num)]
    ELSE tm

\* on_tab_removed(notebook, child, page_num), the handler of "page-removed":
\* the tab whose terminal is the child leaves the list.
on_tab_removed(tm, child) ==
    IF in_tabs(tm, child)
    THEN [tm EXCEPT !.tabs = list_remove(@, child)]
    ELSE tm

\* set_active_tab(tab): set_current_page makes the notebook emit
\* "switch-page" with the page it switched to (selected; -1 when the page is
\* current already and nothing is emitted).
set_active_tab(tm, tab, selected) ==
    IF in_tabs(tm, tab)
    THEN on_tab_switched([tm EXCEPT !.active_tab = tab], selected)
    ELSE tm

\* new_tab(): append_page makes a first page current and emits "switch-page"
\* (switched) before the tab is in the list.
new_tab(tm, switched, selected) ==
    LET appended == [on_tab_switched(tm, switched) EXCEPT
                        !.tabs = Append(@, tm.serial),
                        !.serial = @ + 1]
    IN  TabReturn(IF Len(appended.tabs) = 1
                  THEN set_active_tab(appended, tm.serial, selected)
                  ELSE appended,
                  tm.serial)

\* notebook.remove_page(page_num): when the current page is removed the
\* notebook switches to a neighbour and emits "switch-page" (switched), then
\* it emits "page-removed" for the child; page -1 is the last page.
remove_page(tm, page_num, switched) ==
    on_tab_removed(on_tab_switched(tm, switched), tab_at(tm, page_num))

\* close_tab from "# Clean up" on, with the manager as the signal handlers of
\* remove_page left it: the tab leaves the list if it is still there, and a
\* tab of a list that is not empty becomes the active one.
clean_up(tm, tab, page_num, selected) ==
    LET left == IF in_tabs(tm, tab)
                THEN [tm EXCEPT !.tabs = list_remove(@, tab)]
                ELSE tm
    IN  IF left.tabs # << >>
        THEN set_active_tab(left,
                            tab_at(left, IF page_num < Len(left.tabs) - 1
                                         THEN page_num
                                         ELSE Len(left.tabs) - 1),
                            selected)
        ELSE left

\* close_tab without the refusal of the last tab.
close_tab_closes_last(tm, tab, switched, selected) ==
    IF (IF tab = None THEN tm.active_tab ELSE tab) = None
    THEN TabReturn(tm, FALSE)
    ELSE TabReturn(clean_up(remove_page(tm,
                                page_num_of(tm, IF tab = None
                                                THEN tm.active_tab ELSE tab),
                                switched),
                            IF tab = None THEN tm.active_tab ELSE tab,
                            page_num_of(tm, IF tab = None
                                            THEN tm.active_tab ELSE tab),
                            selected),
                   TRUE)

\* close_tab(tab): the active tab when tab is None; nothing to close, or the
\* last tab, returns False.
close_tab(tm, tab, switched, selected) ==
    IF (IF tab = None THEN tm.active_tab ELSE tab) = None
    THEN TabReturn(tm, FALSE)
    ELSE IF Len(tm.tabs) = 1 THEN TabReturn(tm, FALSE)
    ELSE close_tab_closes_last(tm, tab, switched, selected)

\* The step of next_tab (1) and previous_tab (-1): list.index raises
\* ValueError for an active tab that is not in the list.
step_tab(tm, step, selected) ==
    IF tm.tabs = << >> \/ tm.active_tab = None THEN TabReturn(tm, FALSE)
    ELSE IF ~in_tabs(tm, tm.active_tab)
    THEN [tm |-> tm, ret |-> FALSE, exc |-> "ValueError"]
    ELSE TabReturn(set_active_tab(tm,
                       tab_at(tm, (page_num_of(tm, tm.active_tab) + step)
                                     % Len(tm.tabs)),
                       selected),
                   TRUE)

\* next_tab()
next_tab(tm, selected) == step_tab(tm, 1, selected)

\* previous_tab()
previous_tab(tm, selected) == step_tab(tm, -1, selected)

-----------------------------------------------------------------------------
(* main.TerminalWindow *)

\* on_close_tab(action, param): the active tab, if there is one, is handed
\* to close_tab and "tab_destroyed" is emitted; `closed` is what close_tab
\* returned and `emitted` the events handed to emit_event.
on_close_tab(tm, switched, selected) ==
    IF tm.active_tab = None
    THEN [tm |-> tm, closed |-> FALSE, emitted |-> << >>]
    ELSE [tm |-> close_tab(tm, tm.active_tab, switched, selected).tm,
          closed |-> close_tab(tm, tm.active_tab, switched, selected).ret,
          emitted |-> <<"tab_destroyed">>]

-----------------------------------------------------------------------------
(* The state machine of the window: its tabs and its session file *)

\* The most tabs open at once, and the most tabs ever constructed.
MaxTabs == 3

MaxTabSerial == 4

\* The files at session_file: none, an empty file, texts that are not JSON,
\* a session of the supported version, one of another version, an object
\* without a version, and a document that is no object.
SessionFiles ==
    {NoFile,
     File(""),
     File("{font: 14}"),
     File("{\"version\": \"1.0\", \"tabs\": ["),
     File("{\"version\": \"1.0\", \"tabs\": [], \"active_tab\": 0}"),
     File("{\"version\": \"2.0\", \"tabs\": []}"),
     File("{}"),
     File("[\"font\", \"size\"]")}

\* The page numbers a "switch-page" signal can carry while tm holds its
\* tabs (the notebook's pages are reorderable), and -1 for no signal.
PageNums(tm) == (-1)..(Len(tm.tabs) - 1)

\* The tab manager's fields after a call that ended in state tm.
TabStore(tm) ==
    /\ tabs' = tm.tabs
    /\ active_tab' = tm.active_tab
    /\ tab_serial' = tm.serial

\* The record of a tab manager call with result r.
TabRecord(op, input, r) ==
    [op |-> op, input |-> input,
     ret |-> IF op = "new_tab" THEN Num(r.ret) ELSE Bool(r.ret),
     exc |-> r.exc, file |-> NoFile, emitted |-> << >>, pre |-> TabManager]

NewTab ==
    \E switched \in PageNums(TabManager), selected \in {-1, 0} :
        LET r == new_tab(TabManager, switched, selected)
        IN  /\ Len(tabs) < MaxTabs
            /\ tab_serial <= MaxTabSerial
            /\ TabStore(r.tm)
            /\ win_last' = TabRecord("new_tab",
                               [NoWinInput EXCEPT !.switched = switched,
                                                  !.selected = selected], r)
            /\ UNCHANGED <<pm_vars, kb_vars, cv_vars, cfg_vars, cp_vars>>

\* close_tab of a tab in the list (its close button), or of the active tab.
CloseTab ==
    \E tab \in {tabs[k] : k \in DOMAIN tabs} \cup {None},
       switched \in PageNums(TabManager), selected \in PageNums(TabManager) :
        LET r == close_tab(TabManager, tab, switched, selected)
        IN  /\ TabStore(r.tm)
            /\ win_last' = TabRecord("close_tab",
                               [NoWinInput EXCEPT !.tab = tab,
                                                  !.switched = switched,
                                                  !.selected = selected], r)
            /\ UNCHANGED <<pm_vars, kb_vars, cv_vars, cfg_vars, cp_vars>>

\* set_active_tab of a tab that exists (TerminalTab.focus), in the list or
\* closed.
SetActiveTab ==
    \E tab \in 1..(tab_serial - 1), selected \in PageNums(TabManager) :
        /\ TabStore(set_active_tab(TabManager, tab, selected))
        /\ win_last' = TabRecord("set_active_tab",
                           [NoWinInput EXCEPT !.tab = tab,
                                              !.selected = selected],
                           TabReturn(TabManager, FALSE))
        /\ UNCHANGED <<pm_vars, kb_vars, cv_vars, cfg_vars, cp_vars>>

NextTab ==
    \E selected \in PageNums(TabManager) :
        LET r == next_tab(TabManager, selected)
        IN  /\ TabStore(r.tm)
            /\ win_last' = TabRecord("next_tab",
                               [NoWinInput EXCEPT !.selected = selected], r)
            /\ UNCHANGED <<pm_vars, kb_vars, cv_vars, cfg_vars, cp_vars>>

PreviousTab ==
    \E selected \in PageNums(TabManager) :
        LET r == previous_tab(TabManager, selected)
        IN  /\ TabStore(r.tm)
            /\ win_last' = TabRecord("previous_tab",
                               [NoWinInput EXCEPT !.selected = selected], r)
            /\ UNCHANGED <<pm_vars, kb_vars, cv_vars, cfg_vars, cp_vars>>

\* The close-tab request of the window. No plugin is loaded in this window,
\* so emit_event finds no hook list for the event and returns.
OnCloseTab ==
    \E switched \in PageNums(TabManager), selected \in PageNums(TabManager) :
        LET r == on_close_tab(TabManager, switched, selected)
        IN  /\ TabStore(r.tm)
            /\ win_last' = [op |-> "on_close_tab",
                            input |-> [NoWinInput EXCEPT
                                          !.tab = active_tab,
                                          !.switched = switched,
                                          !.selected = selected],
                            ret |-> Bool(r.closed), exc |-> "none",
                            file |-> NoFile, emitted |-> r.emitted,
                            pre |-> TabManager]
            /\ UNCHANGED <<pm_vars, kb_vars, cv_vars, cfg_vars, cp_vars>>

\* restore_session() at start-up, with each file the user's directory can
\* hold.
RestoreSession ==
    \E file \in SessionFiles, removable \in BOOLEAN :
        LET r == restore_session(file, removable)
        IN  /\ win_last' = [op |-> "restore_session",
                            input |-> [NoWinInput EXCEPT
                                          !.file = file,
                                          !.removable = removable],
                            ret |-> r.ret, exc |-> "none",
                            file |-> r.file, emitted |-> << >>,
                            pre |-> TabManager]
            /\ UNCHANGED <<tabs, active_tab, tab_serial>>
            /\ UNCHANGED <<pm_vars, kb_vars, cv_vars, cfg_vars, cp_vars>>

WinNext ==
    \/ NewTab
    \/ CloseTab
    \/ SetActiveTab
    \/ NextTab
    \/ PreviousTab
    \/ OnCloseTab
    \/ RestoreSession

WinSpec == Init /\ [][WinNext]_vars

-----------------------------------------------------------------------------
(* Notions the properties are stated in *)

\* The plugin ids pm tracks, enabled or disabled.
Tracked(pm) == (DOMAIN pm.enabled_plugins) \cup (DOMAIN pm.disabled_plugins)

\* The object pm tracks for a tracked id.
InstanceOf(pm, id) ==
    IF id \in DOMAIN pm.enabled_plugins THEN pm.enabled_plugins[id]
    ELSE pm.disabled_plugins[id]

\* The hooks pm holds for an event name: none when the name has no list.
HooksFor(pm, e) == IF e \in DOMAIN pm.event_hooks THEN pm.event_hooks[e] ELSE << >>

\* Object o owns a hook in some event list of pm.
OwnsHook(pm, o) ==
    \E e \in DOMAIN pm.event_hooks :
        \E k \in DOMAIN pm.event_hooks[e] : pm.event_hooks[e][k].self = o

\* The call invoked callback `name` of some object.
Invoked(name) == \E k \in DOMAIN last.calls : last.calls[k].name = name

\* Every dependency name plugin id declares is the declared name of an id in
\* pm's enabled set.
DepsMet(pm, id) ==
    \A i \in DOMAIN Descriptor(id).dependencies :
        \E q \in DOMAIN pm.enabled_plugins :
            Descriptor(q).name = Descriptor(id).dependencies[i]

\* s is a prefix of t.
IsPrefix(s, t) == Len(s) <= Len(t) /\ SubSeq(t, 1, Len(s)) = s

LoadOfTracked == last.op = "load_plugin" /\ last.id \in Tracked(last.pre)

LoadOfNew ==
    last.op = "load_plugin" /\ last.id \notin Tracked(last.pre)
        /\ last.input.resolves

-----------------------------------------------------------------------------
(* Properties *)

\* C1: load_plugin of an id that is already tracked (enabled or disabled)
\* returns the tracked instance and changes nothing: both sets, the hook
\* lists, the instance's flag and the set of live objects are as before, and
\* no callback (on_load included) is invoked.
C1_LoadIdempotent ==
    LoadOfTracked =>
        /\ last.exc = "none"
        /\ last.ret = InstanceOf(last.pre, last.id)
        /\ Manager = last.pre
        /\ last.calls = << >>

C1_Witness ==
    /\ LoadOfTracked
    /\ last.input.resolves
    /\ last.id \in DOMAIN last.pre.disabled_plugins
    /\ last.ret = disabled_plugins[last.id]
    /\ OwnsHook(Manager, last.ret)

\* C2: load_plugin of an untracked plugin that declares a dependency name no
\* enabled instance reports returns None; the new instance is then in the
\* disabled set and not in the enabled set, on_load was not invoked and the
\* instance owns no event hook.
C2_UnmetDependencyStoredDisabled ==
    (LoadOfNew /\ ~DepsMet(last.pre, last.id)) =>
        /\ last.exc = "none"
        /\ last.ret = None
        /\ last.id \in DOMAIN disabled_plugins
        /\ last.id \notin DOMAIN enabled_plugins
        /\ disabled_plugins[last.id] \notin DOMAIN last.pre.objects
        /\ ~Invoked("on_load")
        /\ ~OwnsHook(Manager, disabled_plugins[last.id])
        /\ event_hooks = last.pre.event_hooks

C2_Witness ==
    /\ LoadOfNew
    /\ last.id = "p4"
    /\ "p1" \in DOMAIN last.pre.enabled_plugins
    /\ "p3" \in DOMAIN last.pre.disabled_plugins
    /\ last.ret = None
    /\ "p4" \in DOMAIN disabled_plugins

\* C3: emit_event(name), with handlers that do not call back into the
\* manager, invokes exactly the hooks registered for name, each once, in list
\* order, whichever of them raise, and does not raise itself;
\* and the list order is the registration order: a load only appends to the
\* lists it finds.
C3_EmitInRegistrationOrder ==
    /\ (last.op = "emit_event" /\ last.input.reentry = NoReentry) =>
        /\ last.exc = "none"
        /\ last.calls = HooksFor(last.pre, last.event)
        /\ Manager = last.pre
    /\ last.op = "load_plugin" =>
        \A e \in DOMAIN last.pre.event_hooks :
            IsPrefix(last.pre.event_hooks[e], HooksFor(Manager, e))

C3_Witness ==
    /\ last.op = "emit_event"
    /\ Len(HooksFor(last.pre, last.event)) = 3
    /\ last.input.raises = {2}
    /\ Len(last.calls) = 3
    /\ last.calls[1] = last.pre.event_hooks[last.event][1]
    /\ last.calls[3] = last.pre.event_hooks[last.event][3]

\* C4: unload_plugin(id) returns TRUE exactly when id was tracked. For a
\* tracked id the id is afterwards in neither set and its instance owns no
\* hook, also when on_unload raises, and the other instances' hooks keep
\* their order; for an untracked id nothing changes.
C4_UnloadAlwaysRemoves ==
    last.op = "unload_plugin" =>
        /\ last.exc = "none"
        /\ last.ok <=> (last.id \in Tracked(last.pre))
        /\ last.id \in Tracked(last.pre) =>
            /\ last.id \notin Tracked(Manager)
            /\ ~OwnsHook(Manager, InstanceOf(last.pre, last.id))
            /\ DOMAIN event_hooks = DOMAIN last.pre.event_hooks
            /\ \A e \in DOMAIN event_hooks :
                event_hooks[e] =
                    SelectSeq(last.pre.event_hooks[e], LAMBDA h :
                        h.self # InstanceOf(last.pre, last.id))
        /\ last.id \notin Tracked(last.pre) => Manager = last.pre

\* C5: enable_plugin(id) returns FALSE and changes nothing (sets, flags,
\* hook lists; no callback invoked) when id is in the disabled set with an
\* unmet dependency, and when id is not in the disabled set at all.
C5_EnableRefusedChangesNothing ==
    (/\ last.op = "enable_plugin"
     /\ \/ last.id \notin DOMAIN last.pre.disabled_plugins
        \/ ~DepsMet(last.pre, last.id)) =>
        /\ last.exc = "none"
        /\ ~last.ok
        /\ Manager = last.pre
        /\ last.calls = << >>

C5_Witness ==
    /\ last.op = "enable_plugin"
    /\ last.id = "p4"
    /\ "p4" \in DOMAIN last.pre.disabled_plugins
    /\ "p2" \in DOMAIN last.pre.enabled_plugins
    /\ "p3" \in DOMAIN last.pre.disabled_plugins
    /\ ~last.ok

\* C6: enable_plugin(id) of a disabled plugin returns TRUE exactly when the
\* plugin ends the call in the enabled set; when its on_load raises the call
\* returns FALSE, the plugin stays in the disabled set, and every other
\* plugin's membership and the hook lists are unchanged.
C6_FailedEnableStaysDisabled ==
    (last.op = "enable_plugin" /\ last.id \in DOMAIN last.pre.disabled_plugins) =>
        /\ last.exc = "none"
        /\ last.ok <=> (last.id \in DOMAIN enabled_plugins)
        /\ (last.input.load_raises /\ Invoked("on_load")) =>
            /\ ~last.ok
            /\ last.id \in DOMAIN disabled_plugins
            /\ last.id \notin DOMAIN enabled_plugins
        /\ \A q \in PluginIds \ {last.id} :
            /\ q \in DOMAIN enabled_plugins <=> q \in DOMAIN last.pre.enabled_plugins
            /\ q \in DOMAIN disabled_plugins <=> q \in DOMAIN last.pre.disabled_plugins
        /\ event_hooks = last.pre.event_hooks

\* The manager and result after unload_plugin(id) followed by load_plugin(d),
\* d the descriptor id was loaded from, started in the state before the call.
UnloadThenLoad ==
    load_plugin(
        unload_plugin(last.pre, last.id, last.input.unload_raises).pm,
        Descriptor(last.id), last.input.resolves, last.input.persisted,
        last.input.load_raises)

\* C7: reload_plugin(id) of a tracked plugin ends in the enabled set, disabled
\* set and hook lists of unload_plugin(id) followed by load_plugin(d), and
\* returns TRUE exactly when that load returns an instance.
C7_ReloadIsUnloadThenLoad ==
    (last.op = "reload_plugin" /\ last.id \in Tracked(last.pre)) =>
        /\ last.exc = "none"
        /\ enabled_plugins = UnloadThenLoad.pm.enabled_plugins
        /\ disabled_plugins = UnloadThenLoad.pm.disabled_plugins
        /\ event_hooks = UnloadThenLoad.pm.event_hooks
        /\ last.ok <=> (UnloadThenLoad.ret # None)

\* C8: reload_plugin(id) never raises: for tracked and untracked ids it ends
\* by returning its boolean, and that is FALSE for a tracked id with no cached
\* descriptor.
C8_ReloadNeverRaises ==
    last.op = "reload_plugin" =>
        /\ last.exc = "none"
        /\ (/\ last.id \in Tracked(last.pre)
            /\ last.id \notin DOMAIN last.pre.plugin_configs) => ~last.ok

\* C9: no id is in both the enabled and the disabled set, every live plugin
\* object is the one tracked under its own id, so each id has at most one live
\* object, and a load of a tracked id constructs no object.
C9_OneInstancePerId ==
    /\ (DOMAIN enabled_plugins) \cap (DOMAIN disabled_plugins) = {}
    /\ \A id \in Tracked(Manager) :
        /\ InstanceOf(Manager, id) \in DOMAIN objects
        /\ objects[InstanceOf(Manager, id)].id = id
    /\ \A id \in PluginIds :
        Cardinality({o \in DOMAIN objects : objects[o].id = id}) <= 1
    /\ LoadOfTracked =>
        /\ serial = last.pre.serial
        /\ DOMAIN objects = DOMAIN last.pre.objects

C9_Witness ==
    /\ LoadOfTracked
    /\ last.input.resolves
    /\ last.id = "p3"
    /\ "p3" \in DOMAIN disabled_plugins
    /\ "p1" \in DOMAIN enabled_plugins
    /\ serial = MaxInst

\* C10: the dependency check of a plugin succeeds exactly when every declared
\* dependency name is the declared name of some instance in the enabled set:
\* a new plugin's load returns an instance, and a disabled plugin's enable
\* moves it to the enabled set, if and only if that holds. Disabled instances
\* do not count, and any enabled instance of the name does.
C10_DependencyCheckByEnabledName ==
    /\ LoadOfNew => (last.ret # None <=> DepsMet(last.pre, last.id))
    /\ (last.op = "enable_plugin" /\ last.id \in DOMAIN last.pre.disabled_plugins) =>
        (last.id \in DOMAIN enabled_plugins <=> DepsMet(last.pre, last.id))

C10_Witness ==
    /\ LoadOfNew
    /\ last.id = "p4"
    /\ last.ret # None
    /\ "p1" \notin Tracked(last.pre)
    /\ "p2" \in DOMAIN last.pre.enabled_plugins
    /\ "p3" \in DOMAIN last.pre.enabled_plugins

C10_WitnessDisabledDoesNotCount ==
    /\ last.op = "enable_plugin"
    /\ last.id = "p3"
    /\ "p3" \in DOMAIN last.pre.disabled_plugins
    /\ "p1" \in DOMAIN last.pre.disabled_plugins
    /\ last.pre.enabled_plugins = EmptyDict
    /\ "p3" \notin DOMAIN enabled_plugins

\* C11: unloaded is terminal until re-discovery: a load_plugin call that
\* directly follows the successful unload_plugin of the same id, with the
\* descriptor obtained before the unload, does not produce a live instance.
C11_UnloadedIsTerminal ==
    [][(/\ last.op = "unload_plugin" /\ last.ok
        /\ last'.op = "load_plugin" /\ last'.id = last.id) =>
            /\ last'.ret = None
            /\ last.id \notin DOMAIN enabled_plugins'
            /\ last.id \notin DOMAIN disabled_plugins']_vars

\* The configuration the instance of a new plugin is to have after its load:
\* the sub-config file's content when the file exists, else the descriptor's
\* 'config' object.
ExpectedConfig ==
    IF last.input.persisted THEN PersistedConfig(last.id)
    ELSE IF "config" \in DOMAIN Descriptor(last.id)
    THEN Descriptor(last.id).config ELSE EmptyDict

\* C12: after a load_plugin that returns a new instance, the instance's
\* config is the persisted sub-config when the plugin has a sub-config file,
\* and the descriptor's default config object when it has none.
C12_ConfigIsSubConfigOrDefault ==
    (LoadOfNew /\ last.ret # None) =>
        objects[last.ret].config = ExpectedConfig

-----------------------------------------------------------------------------
(* Properties of the keybinding registry *)

\* The actions kb binds.
BoundActions(kb) == {kb.bindings[i].action : i \in DOMAIN kb.bindings}

\* The binding kb holds for a bound action.
BindingOf(kb, action) ==
    kb.bindings[CHOOSE i \in DOMAIN kb.bindings : kb.bindings[i].action = action]

\* The actions other than `action` that kb binds to accelerator acc.
HoldersOf(kb, acc, action) ==
    {a \in BoundActions(kb) \ {action} : BindingOf(kb, a).accelerator = acc}

\* The category lists of kb that contain action.
CategoriesOf(kb, action) ==
    {c \in DOMAIN kb.categories :
        \E k \in DOMAIN kb.categories[c] : kb.categories[c][k] = action}

\* The actions of the built-in defaults table.
DefaultActions == {default_bindings[i].action : i \in DOMAIN default_bindings}

\* The key combination the defaults table gives an action.
DefaultCombo(action) ==
    default_bindings[CHOOSE i \in DOMAIN default_bindings :
                        default_bindings[i].action = action].key

RegisterCall == kb_last.op = "register_binding"

\* C13: register_binding(action, combo) whose combo parses to a (valid)
\* accelerator that a different action's binding holds returns FALSE, appends
\* the one pair (action, existing action) to the conflict list and leaves the
\* bindings and the category lists as they were.
C13_ConflictRejectedAndRecorded ==
    (/\ RegisterCall
     /\ accelerator_parse(kb_last.input.key_combo)[1] # 0
     /\ HoldersOf(kb_last.pre, accelerator_parse(kb_last.input.key_combo),
                  kb_last.input.action) # {}) =>
        /\ ~kb_last.ok
        /\ bindings = kb_last.pre.bindings
        /\ categories = kb_last.pre.categories
        /\ Len(conflicts) = Len(kb_last.pre.conflicts) + 1
        /\ SubSeq(conflicts, 1, Len(kb_last.pre.conflicts)) = kb_last.pre.conflicts
        /\ conflicts[Len(conflicts)][1] = kb_last.input.action
        /\ conflicts[Len(conflicts)][2] \in
              HoldersOf(kb_last.pre, accelerator_parse(kb_last.input.key_combo),
                        kb_last.input.action)

C13_Witness ==
    /\ RegisterCall
    /\ kb_last.input.action = "paste"
    /\ kb_last.input.key_combo = "<Ctrl><Shift>C"
    /\ BoundActions(kb_last.pre) = {"copy"}
    /\ BindingOf(kb_last.pre, "copy").key_combo = "<Ctrl><Shift>C"
    /\ ~kb_last.ok
    /\ conflicts = <<(<<"paste", "copy">>)>>
    /\ BoundActions(KbManager) = {"copy"}

\* C14: in every reachable state of the registry no two distinct actions are
\* bound to the same parsed accelerator.
C14_NoSharedAccelerator ==
    \A a \in BoundActions(KbManager) :
        HoldersOf(KbManager, BindingOf(KbManager, a).accelerator, a) = {}

\* C15: export_bindings() after reset_to_defaults() is the combo map of the
\* defaults table: every action of the table, each with the table's key
\* combination, and nothing else.
C15_ExportAfterResetIsDefaults ==
    kb_last.op = "reset_to_defaults" =>
        export_bindings(KbManager) = [a \in DefaultActions |-> DefaultCombo(a)]

\* C16: after load_from_config(doc) every action of the defaults table is
\* bound, and every override of doc's keybindings section that names an action
\* of the table has replaced that action's combo and accelerator.
C16_LoadBindsDefaultsAndOverrides ==
    kb_last.op = "load_from_config" =>
        /\ DefaultActions \subseteq BoundActions(KbManager)
        /\ "keybindings" \in DOMAIN kb_last.input.config =>
            \A a \in (DOMAIN kb_last.input.config.keybindings) \cap DefaultActions :
                /\ a \in BoundActions(KbManager)
                /\ BindingOf(KbManager, a).key_combo =
                      kb_last.input.config.keybindings[a]
                /\ BindingOf(KbManager, a).accelerator =
                      accelerator_parse(kb_last.input.config.keybindings[a])

\* C17: a user override in load_from_config that sets "copy" to the combo
\* "paste" is bound to succeeds: both actions are bound, "copy" has the
\* override's combo and accelerator, "paste" keeps its default binding, and no
\* conflict pair is recorded for "copy"; the same change made through
\* register_binding is rejected and leaves the binding of "copy" as it was.
C17_OverrideSkipsConflictCheck ==
    /\ (/\ kb_last.op = "load_from_config"
        /\ "keybindings" \in DOMAIN kb_last.input.config
        /\ "copy" \in DOMAIN kb_last.input.config.keybindings
        /\ kb_last.input.config.keybindings["copy"] = DefaultCombo("paste")) =>
            /\ {"copy", "paste"} \subseteq BoundActions(KbManager)
            /\ BindingOf(KbManager, "copy").key_combo = DefaultCombo("paste")
            /\ BindingOf(KbManager, "copy").accelerator =
                  accelerator_parse(DefaultCombo("paste"))
            /\ BindingOf(KbManager, "paste").key_combo = DefaultCombo("paste")
            /\ BindingOf(KbManager, "paste").accelerator =
                  accelerator_parse(DefaultCombo("paste"))
            /\ \A k \in DOMAIN conflicts : conflicts[k][1] # "copy"
    /\ (/\ RegisterCall
        /\ kb_last.input.action = "copy"
        /\ "paste" \in BoundActions(kb_last.pre)
        /\ kb_last.input.key_combo = BindingOf(kb_last.pre, "paste").key_combo) =>
            /\ ~kb_last.ok
            /\ bindings = kb_last.pre.bindings

C17_Witness ==
    /\ kb_last.op = "load_from_config"
    /\ "keybindings" \in DOMAIN kb_last.input.config
    /\ DOMAIN kb_last.input.config.keybindings = {"copy"}
    /\ kb_last.input.config.keybindings["copy"] = "<Ctrl><Shift>V"
    /\ BindingOf(KbManager, "copy").accelerator =
          BindingOf(KbManager, "paste").accelerator
    /\ "copy" \in BoundActions(kb_last.pre)
    /\ BindingOf(kb_last.pre, "copy").key_combo = "<Control><Shift>c"

\* C18: unregister_binding(action) on a bound action returns TRUE and removes
\* the binding and the action's category membership: the action is in no
\* category list afterwards. On an unknown action it returns FALSE and leaves
\* bindings, categories and conflicts unchanged.
C18_UnregisterRemovesMembership ==
    kb_last.op = "unregister_binding" =>
        /\ kb_last.input.action \in BoundActions(kb_last.pre) =>
            /\ kb_last.ok
            /\ kb_last.input.action \notin BoundActions(KbManager)
            /\ CategoriesOf(KbManager, kb_last.input.action) = {}
        /\ kb_last.input.action \notin BoundActions(kb_last.pre) =>
            /\ ~kb_last.ok
            /\ KbManager = kb_last.pre

\* C19: register_binding with a key combination that does not parse to a
\* valid accelerator returns FALSE and leaves bindings, category lists and the
\* conflict list unchanged; a binding the action already has is kept.
C19_InvalidComboRejected ==
    (RegisterCall /\ accelerator_parse(kb_last.input.key_combo)[1] = 0) =>
        /\ ~kb_last.ok
        /\ KbManager = kb_last.pre

C19_Witness ==
    /\ RegisterCall
    /\ kb_last.input.key_combo = "bogus"
    /\ kb_last.input.action = "copy"
    /\ "copy" \in BoundActions(kb_last.pre)
    /\ BindingOf(KbManager, "copy").key_combo = "<Ctrl><Shift>V"
    /\ CategoriesOf(KbManager, "copy") = {"General"}

-----------------------------------------------------------------------------
(* Properties of the configuration validator *)

\* C20: validating the empty partial document returns exactly the canonical
\* default document, with no warnings (and no errors), whatever documents
\* were validated before.
C20_EmptyDocGivesDefaults ==
    (cv_last.op = "validate" /\ cv_last.config = Dict(EmptyDict)) =>
        /\ cv_last.ret = get_default_config
        /\ cv_warnings = << >>
        /\ cv_errors = << >>

C20_Witness ==
    /\ cv_last.op = "validate"
    /\ cv_last.config = Dict(EmptyDict)
    /\ cv_last.pre.ret # Null
    /\ cv_last.pre.ret # get_default_config
    /\ cv_last.pre.warnings # << >>
    /\ ValueOf(ValueOf(cv_last.ret)["font"])["size"] = Num(12)
    /\ cv_warnings = << >>

\* The key paths of a document: the empty path, and every path of keys that
\* leads to a value, nested document or not.
RECURSIVE Paths(_)
Paths(d) ==
    IF TypeOf(d) # "dict" THEN {<< >>}
    ELSE {<< >>} \cup
         UNION {{<<k>> \o p : p \in Paths(ValueOf(d)[k])} :
                   k \in DOMAIN ValueOf(d)}

\* Document d has a value at the path, and that value.
RECURSIVE HasPath(_, _)
HasPath(d, path) ==
    \/ path = << >>
    \/ /\ TypeOf(d) = "dict"
       /\ Head(path) \in DOMAIN ValueOf(d)
       /\ HasPath(ValueOf(d)[Head(path)], Tail(path))

RECURSIVE At(_, _)
At(d, path) ==
    IF path = << >> THEN d ELSE At(ValueOf(d)[Head(path)], Tail(path))

\* Document d holds value v at the path.
Holds(d, path, v) == HasPath(d, path) /\ At(d, path) = v

\* C21: validate(P) never loses a key present in P. For every path of P: a
\* non-null scalar or list value is the result's value at that path (whether
\* or not it passes the validators); a value at a path the defaults do not
\* have is in the result verbatim; a null at a path the defaults have leaves
\* the default there.
C21_MergeKeepsUserKeys ==
    cv_last.op = "validate" =>
        \A path \in Paths(cv_last.config) :
            LET v == At(cv_last.config, path)
            IN  /\ TypeOf(v) \notin {"null", "dict"} =>
                    Holds(cv_last.ret, path, v)
                /\ ~HasPath(get_default_config, path) =>
                    Holds(cv_last.ret, path, v)
                /\ (TypeOf(v) = "null" /\ HasPath(get_default_config, path)) =>
                    Holds(cv_last.ret, path, At(get_default_config, path))

\* A document with a null at a default key (nested and at the top), a null
\* and a string at keys of its own; and one whose values fail their checks.
C21_Witness ==
    /\ cv_last.op = "validate"
    /\ cv_last.pre.warnings # << >>
    /\ Holds(cv_last.config, <<"font", "size">>, Null)
    /\ Holds(cv_last.config, <<"session">>, Null)
    /\ Holds(cv_last.ret, <<"font", "size">>, Num(12))
    /\ Holds(cv_last.ret, <<"session", "max_tabs">>, Num(10))
    /\ Holds(cv_last.ret, <<"extra">>, Null)
    /\ Holds(cv_last.ret, <<"label">>, Str("work"))
    /\ Holds(cv_last.pre.ret, <<"font", "size">>, Num(-1))

\* C22: validate is idempotent: validating the document validate returned
\* returns that document.
C22_ValidateIdempotent ==
    (cv_last.op = "validate" /\ cv_last.config = cv_last.pre.ret) =>
        cv_last.ret = cv_last.config

\* The validated document of a partial document that replaced a list, added
\* a key and failed a check is validated again.
C22_Witness ==
    /\ cv_last.op = "validate"
    /\ cv_last.config = cv_last.pre.ret
    /\ cv_last.ret = cv_last.config
    /\ cv_last.ret # get_default_config
    /\ Holds(cv_last.ret, <<"theme", "palette">>,
             List(<<Str("#FFF"), Str("red")>>))
    /\ cv_warnings # << >>

\* Some warning of the last call is the message.
Warned(message) == \E i \in DOMAIN cv_warnings : cv_warnings[i] = message

\* The value is an integer of the document language (not a boolean) within
\* lo..hi.
IntegerIn(v, lo, hi) == TypeOf(v) = "int" /\ ValueOf(v) >= lo /\ ValueOf(v) <= hi

\* C23: the field validators only warn. The validated document is the merged
\* one, unchanged; session.max_tabs draws its warning exactly when it is not
\* an integer in [1,50], performance.max_scrollback exactly when it is not an
\* integer in [100,1000000], performance.cursor_shape exactly when it is not
\* one of the enumerated shapes.
C23_ValidatorsOnlyWarn ==
    cv_last.op = "validate" =>
        /\ cv_last.ret = _merge_config(get_default_config, cv_last.config)
        /\ HasPath(cv_last.ret, <<"session", "max_tabs">>) =>
              (Warned("max_tabs should be between 1 and 50") <=>
                 ~IntegerIn(At(cv_last.ret, <<"session", "max_tabs">>), 1, 50))
        /\ HasPath(cv_last.ret, <<"performance", "max_scrollback">>) =>
              (Warned("max_scrollback should be between 100 and 1000000") <=>
                 ~IntegerIn(At(cv_last.ret, <<"performance", "max_scrollback">>),
                            100, 1000000))
        /\ HasPath(cv_last.ret, <<"performance", "cursor_shape">>) =>
              (Warned("cursor_shape should be one of block, ibeam, underline") <=>
                 At(cv_last.ret, <<"performance", "cursor_shape">>) \notin
                    {Str("block"), Str("ibeam"), Str("underline")})

\* The value is a list of exactly 16 valid colors.
SixteenColors(v) ==
    /\ TypeOf(v) = "list"
    /\ Len(ValueOf(v)) = 16
    /\ \A i \in DOMAIN ValueOf(v) : _is_valid_color(ValueOf(v)[i])

\* C24: a merged theme.palette that is not a list of exactly 16 valid colors
\* is returned as it is and draws at least one palette warning.
C24_BadPaletteWarns ==
    (/\ cv_last.op = "validate"
     /\ HasPath(cv_last.ret, <<"theme", "palette">>)
     /\ ~SixteenColors(At(cv_last.ret, <<"theme", "palette">>))) =>
        \/ Warned("Palette should have 16 colors")
        \/ Warned("Invalid color in palette")

-----------------------------------------------------------------------------
(* Properties of the settings store *)

\* The keys of a list of segments.
KeysOf(segments) == [i \in DOMAIN segments |-> text(segments[i])]

\* C25: get(dottedPath, fallback) never raises; it returns the value the
\* document holds at the path of the segments between the '.'s when every
\* segment is a key of a nested document, the fallback otherwise; and it
\* leaves the document as it was.
C25_GetWalksOrFallsBack ==
    cfg_last.op = "get" =>
        /\ cfg_last.exc = "none"
        /\ cfg_last.ret =
              IF HasPath(cfg_last.pre, KeysOf(cfg_last.input.segments))
              THEN At(cfg_last.pre, KeysOf(cfg_last.input.segments))
              ELSE cfg_last.input.default
        /\ cfg_config = cfg_last.pre

\* get("font.size.points", "fallback") on a document loaded from a file whose
\* font.size is the number 14: the walk meets a value that is not a nested
\* document.
C25_Witness ==
    /\ cfg_last.op = "get"
    /\ cfg_last.input.key = <<"f", "o", "n", "t", ".", "s", "i", "z", "e", ".",
                              "p", "o", "i", "n", "t", "s">>
    /\ Holds(cfg_last.pre, <<"font", "size">>, Num(14))
    /\ cfg_last.input.default = Str("fallback")
    /\ cfg_last.ret = Str("fallback")
    /\ cfg_config = cfg_last.pre

\* The file Config.__init__ reads.
FileRead(input) ==
    IF ~input.path_given /\ ~input.file.exists /\ input.packaged.exists
    THEN input.packaged ELSE input.file

\* C26: loading the configuration never raises: without a persisted document
\* the document is the built-in default tree, and with a persisted file that
\* cannot be parsed the construction still ends with a document.
C26_LoadNeverRaises ==
    cfg_last.op = "Config" =>
        /\ cfg_last.exc = "none"
        /\ ~FileRead(cfg_last.input).exists =>
              cfg_config = Config_get_default_config

-----------------------------------------------------------------------------
(* Properties of the configuration parser *)

\* The lines of a text, stripped.
LinesOf(content) ==
    [k \in DOMAIN split(content, "\n") |-> strip(split(content, "\n")[k])]

\* The key and the value text of a `key = value` line.
KeyOf(line) == strip(before(line, "="))

ValueTextOf(line) == strip(after(line, "="))

\* C27: a top-level line ending in '{' opens a named section: the section's
\* name maps to a nested document holding exactly the section's key/value
\* entries, and those entries are not at the top level.
C27_SectionIsNested ==
    /\ (cp_last.op = "parse" /\ cp_last.content = SectionContent) =>
          cp_last.ret = Dict("font" :> Dict("size" :> Num(14) @@
                                            "family" :> Str("Mono")))
    /\ (cp_last.op = "parse" /\ cp_last.content = SectionThenKey) =>
          cp_last.ret = Dict("session" :> Dict("max_tabs" :> Num(5)) @@
                             "debug" :> Bool(TRUE))

\* C28: parsing one non-blank, non-comment line without '=' that does not
\* end in '{' or '}' gives no entry and exactly one warning.
C28_OtherLineWarnsOnce ==
    (/\ cp_last.op = "parse"
     /\ Len(LinesOf(cp_last.content)) = 1
     /\ ~blank_or_comment(LinesOf(cp_last.content)[1])
     /\ ~contains(LinesOf(cp_last.content)[1], "=")
     /\ ~endswith(LinesOf(cp_last.content)[1], "{")
     /\ ~endswith(LinesOf(cp_last.content)[1], "}")) =>
        /\ cp_last.ret = Dict(EmptyDict)
        /\ Len(cp_warnings) = 1

\* The value text is none of the forms tried before the number: true/false,
\* a bracketed list, a double-quoted string.
PlainValue(v) ==
    /\ lower(v) \notin {<<"t", "r", "u", "e">>, <<"f", "a", "l", "s", "e">>}
    /\ ~(startswith(v, "[") /\ endswith(v, "]"))
    /\ ~(startswith(v, "\"") /\ endswith(v, "\""))

\* C29: a one-line `key = value` text whose value is plain and parseable as a
\* number gives the key a number, never a string: an integer when the text
\* has no '.', a float when it has one; "scrollback_lines = 500" gives the
\* integer 500.
C29_NumberTextGivesNumber ==
    /\ (/\ cp_last.op = "parse"
        /\ Len(LinesOf(cp_last.content)) = 1
        /\ contains(LinesOf(cp_last.content)[1], "=")
        /\ KeyOf(LinesOf(cp_last.content)[1]) # << >>
        /\ PlainValue(ValueTextOf(LinesOf(cp_last.content)[1]))
        /\ is_float_literal(ValueTextOf(LinesOf(cp_last.content)[1]))) =>
          LET key == text(KeyOf(LinesOf(cp_last.content)[1]))
              v == ValueTextOf(LinesOf(cp_last.content)[1])
          IN  /\ key \in DOMAIN ValueOf(cp_last.ret)
              /\ TypeOf(ValueOf(cp_last.ret)[key]) =
                    IF contains(v, ".") THEN "float" ELSE "int"
    /\ (cp_last.op = "parse" /\ cp_last.content = ScrollbackLine) =>
          cp_last.ret = Dict("scrollback_lines" :> Num(500))

\* Line k of the text is a well-formed top-level `key = value` line; it got
\* a warning.
WellFormed(lines, k) ==
    /\ contains(lines[k], "=")
    /\ ~blank_or_comment(lines[k])
    /\ ~startswith(lines[k], "}")
    /\ ~endswith(lines[k], "{")
    /\ KeyOf(lines[k]) # << >>

WarnedAt(k) == \E i \in DOMAIN cp_warnings : cp_warnings[i].line = k

\* C30: warnings never abort a parse: every well-formed top-level
\* `key = value` line after a line that got a warning is in the returned
\* document (with its own value unless a later line sets the key again), and
\* the warnings are in the parser's list after the call. (No line is ever
\* recorded as an error: the list of errors stays empty.)
C30_WarningsDoNotAbort ==
    cp_last.op = "parse" =>
        LET lines == LinesOf(cp_last.content)
        IN  /\ \A k \in DOMAIN lines :
                  (WellFormed(lines, k) /\ \E j \in 1..(k - 1) : WarnedAt(j)) =>
                      /\ text(KeyOf(lines[k])) \in DOMAIN ValueOf(cp_last.ret)
                      /\ (\A j \in (k + 1)..Len(lines) :
                              WellFormed(lines, j) =>
                                  KeyOf(lines[j]) # KeyOf(lines[k])) =>
                            ValueOf(cp_last.ret)[text(KeyOf(lines[k]))] =
                                _parse_key_value(lines[k]).value
            /\ \A i \in DOMAIN cp_warnings :
                  /\ cp_warnings[i].line \in DOMAIN lines
                  /\ cp_warnings[i].text = text(lines[cp_warnings[i].line])
            /\ cp_errors = << >>

\* "hello", "a = 1", "??", "b = ok": two warnings, and both keys parsed,
\* right after a parse that left other warnings.
C30_Witness ==
    /\ cp_last.op = "parse"
    /\ cp_last.content = WarningThenKeys
    /\ cp_last.pre.warnings # << >>
    /\ Len(cp_warnings) = 2
    /\ WarnedAt(1) /\ WarnedAt(3)
    /\ cp_last.ret = Dict("a" :> Num(1) @@ "b" :> Str("ok"))

-----------------------------------------------------------------------------
(* Restoring the session *)

\* The text at session_file cannot be parsed as a session document: it is
\* empty, or it is not JSON.
Unparseable(file) ==
    file.exists /\ (file.text = "" \/ json_load(file.text).exc = "JSONDecodeError")

\* C31: restore_session treats every corrupted session file as absent and
\* deletes it: when the file exists and its text cannot be parsed (an empty
\* file included) and the file can be removed, restore_session returns None
\* and the file no longer exists after the call; a parseable document whose
\* version is not "1.0" gives None too.
C31_CorruptedSessionDeleted ==
    win_last.op = "restore_session" =>
        /\ (Unparseable(win_last.input.file) /\ win_last.input.removable) =>
              /\ win_last.ret = Null
              /\ ~win_last.file.exists
        /\ (/\ win_last.input.file.exists
            /\ ~Unparseable(win_last.input.file)
            /\ TypeOf(json_load(win_last.input.file.text).ret) = "dict"
            /\ dict_get(json_load(win_last.input.file.text).ret, "version",
                        Null) # Str("1.0")) =>
              win_last.ret = Null

-----------------------------------------------------------------------------
(* The window's tabs *)

\* C39: the window emits "tab_destroyed" only for a tab that was closed: on
\* a close-tab request emit_event("tab_destroyed") is called if and only if
\* close_tab returned True, so a refused request (the last tab) emits
\* nothing.
C39_DestroyedOnlyWhenClosed ==
    win_last.op = "on_close_tab" =>
        ((\E k \in DOMAIN win_last.emitted :
              win_last.emitted[k] = "tab_destroyed")
            <=> win_last.ret = Bool(TRUE))

\* C40: once a first tab has been created the list of tabs is never empty
\* and the active tab is one of the list; close_tab of the last tab returns
\* False and leaves the list alone.
C40_ActiveTabInList ==
    tab_serial > 1 =>
        /\ tabs # << >>
        /\ in_tabs(TabManager, active_tab)
        /\ (win_last.op = "close_tab" /\ Len(win_last.pre.tabs) = 1) =>
              /\ win_last.ret = Bool(FALSE)
              /\ tabs = win_last.pre.tabs

\* The active tab of three is closed while the notebook reports a switch to
\* the page of the closing tab: the tab left the list and another tab of the
\* list is active.
C40_Witness ==
    /\ win_last.op = "close_tab"
    /\ win_last.ret = Bool(TRUE)
    /\ Len(win_last.pre.tabs) = 3
    /\ win_last.input.tab = win_last.pre.active_tab
    /\ win_last.input.switched = page_num_of(win_last.pre, win_last.input.tab)
    /\ Len(tabs) = 2
    /\ ~in_tabs(TabManager, win_last.input.tab)
    /\ in_tabs(TabManager, active_tab)

-----------------------------------------------------------------------------
(* Invariants of the plugin registry *)

\* C32: dependency closure is an invariant of the registry: every plugin of
\* the enabled set has each dependency name it declares reported by some
\* plugin of the enabled set.
C32_DependencyClosure ==
    \A id \in DOMAIN enabled_plugins : DepsMet(Manager, id)

\* C33: set membership and the instance flag agree: a tracked instance is in
\* the enabled set exactly when its enabled flag is true and in the disabled
\* set exactly when the flag is false.
C33_FlagAgreesWithSet ==
    \A id \in Tracked(Manager) :
        /\ id \in DOMAIN enabled_plugins
              <=> is_enabled(Manager, InstanceOf(Manager, id))
        /\ id \in DOMAIN disabled_plugins
              <=> ~is_enabled(Manager, InstanceOf(Manager, id))

\* How many times the hook (plugin, attr) is in pm's list for event e.
Registrations(pm, e, plugin, attr) ==
    Cardinality({k \in DOMAIN HooksFor(pm, e) :
                    HooksFor(pm, e)[k] = [self |-> plugin, name |-> attr]})

\* C34: every plugin of the enabled set has each event hook it declares
\* registered exactly once in the list of the hook's event.
C34_EnabledHasItsHooks ==
    \A id \in DOMAIN enabled_plugins :
        \A i \in DOMAIN PluginHooks(id) :
            \A j \in DOMAIN PluginHooks(id)[i]._plugin_hooks :
                Registrations(Manager, PluginHooks(id)[i]._plugin_hooks[j],
                              enabled_plugins[id], PluginHooks(id)[i].attr) = 1

\* The hooks a dispatch invoked, in order: its calls without the on_load and
\* on_unload a handler's load or unload made.
HookCalls ==
    SelectSeq(last.calls, LAMBDA c : c.name \notin {"on_load", "on_unload"})

\* C35: disable_plugin(id) of an enabled id leaves the hook lists unchanged
\* and invokes no callback: it moves the instance from the enabled to the
\* disabled set and clears its flag; and emit_event still invokes the hooks
\* of an instance of the disabled set, at their position in the list.
C35_DisableKeepsHooks ==
    /\ (last.op = "disable_plugin" /\ last.id \in DOMAIN last.pre.enabled_plugins) =>
        /\ last.ok
        /\ event_hooks = last.pre.event_hooks
        /\ last.calls = << >>
        /\ last.id \notin DOMAIN enabled_plugins
        /\ last.id \in DOMAIN disabled_plugins
        /\ disabled_plugins[last.id] = last.pre.enabled_plugins[last.id]
        /\ ~is_enabled(Manager, disabled_plugins[last.id])
        /\ Manager = [last.pre EXCEPT
                        !.enabled_plugins = Del(@, last.id),
                        !.disabled_plugins =
                            Put(@, last.id, last.pre.enabled_plugins[last.id]),
                        !.objects[last.pre.enabled_plugins[last.id]].enabled =
                            FALSE]
    /\ last.op = "emit_event" =>
        \A k \in DOMAIN HooksFor(last.pre, last.event) :
            (\E id \in DOMAIN last.pre.disabled_plugins :
                last.pre.disabled_plugins[id] =
                    HooksFor(last.pre, last.event)[k].self) =>
                /\ k \in DOMAIN HookCalls
                /\ HookCalls[k] = HooksFor(last.pre, last.event)[k]

\* An event is emitted to three hooks of which the second belongs to an
\* instance that was disabled (in the disabled set, flag cleared): all three
\* are invoked, in list order.
C35_Witness ==
    /\ last.op = "emit_event"
    /\ last.input.reentry = NoReentry
    /\ Len(HooksFor(last.pre, last.event)) = 3
    /\ \E id \in DOMAIN last.pre.disabled_plugins :
          /\ last.pre.disabled_plugins[id] =
                HooksFor(last.pre, last.event)[2].self
          /\ ~is_enabled(last.pre, last.pre.disabled_plugins[id])
    /\ last.calls = HooksFor(last.pre, last.event)

\* C36: one emit_event(name) invokes exactly the hooks that were registered
\* for name when the call began, each once, in order: a handler that loads
\* or unloads a plugin during the dispatch does not change which handlers
\* the dispatch in progress invokes.
C36_DispatchOverSnapshot ==
    last.op = "emit_event" => HookCalls = HooksFor(last.pre, last.event)

-----------------------------------------------------------------------------
(* Category lists *)

\* C37: category lists and bindings stay consistent: an action is in the
\* list of category c if and only if it is bound and its binding's category
\* is c, and it is there once.
C37_CategoriesMatchBindings ==
    /\ \A c \in DOMAIN categories :
          \A k \in DOMAIN categories[c] :
              /\ categories[c][k] \in BoundActions(KbManager)
              /\ BindingOf(KbManager, categories[c][k]).category = c
              /\ \A j \in DOMAIN categories[c] :
                    categories[c][j] = categories[c][k] => j = k
    /\ \A a \in BoundActions(KbManager) :
          CategoriesOf(KbManager, a) = {BindingOf(KbManager, a).category}

-----------------------------------------------------------------------------
(* Lines the parser drops *)

\* The line has an entry in the document doc: its key is a key of doc or of
\* a section of doc, or it is the header of a section of doc.
HasEntry(doc, line) ==
    \/ /\ contains(line, "=")
       /\ KeyOf(line) # << >>
       /\ \/ text(KeyOf(line)) \in DOMAIN ValueOf(doc)
          \/ \E name \in DOMAIN ValueOf(doc) :
                /\ TypeOf(ValueOf(doc)[name]) = "dict"
                /\ text(KeyOf(line)) \in DOMAIN ValueOf(ValueOf(doc)[name])
    \/ /\ endswith(line, "{")
       /\ text(strip(before(line, "{"))) \in DOMAIN ValueOf(doc)

\* C38: the parser drops no line silently: every line of the text that is
\* neither blank nor a comment has an entry in the returned document (at top
\* level or in a section) or a warning or an error for its line number.
C38_NoLineDropped ==
    cp_last.op = "parse" =>
        \A k \in DOMAIN LinesOf(cp_last.content) :
            ~blank_or_comment(LinesOf(cp_last.content)[k]) =>
                \/ HasEntry(cp_last.ret, LinesOf(cp_last.content)[k])
                \/ WarnedAt(k)
                \/ \E i \in DOMAIN cp_errors : cp_errors[i].line = k

====
